---- MODULE Spec2Model ----
(***************************************************************************)
(* A model of the csvhandler package: Record, Reader, Writer, Formatter    *)
(* and the error types, together with the part of encoding/csv the package *)
(* drives (csv.Reader.Read, csv.Writer.Write/Flush/Error).                 *)
(*                                                                         *)
(* A Go string is a sequence of one-character strings, so that formatting, *)
(* parsing and the csv text encoding are computed, never assumed.          *)
(***************************************************************************)
EXTENDS Integers, Sequences, FiniteSets, TLC

VARIABLES
    pc,         \* the caller's position in the scenario of the specification
    op,         \* the name of the last call the caller made
    src,        \* what the csv source held before anything was read
    hdrArg,     \* the header arguments the caller passed to NewReader
    input,      \* the *csv.Reader: what the source still holds, its settings
    inputPrev,  \* the *csv.Reader as it was before the last Reader call
    rd,         \* the *Reader returned by NewReader, or Nil
    rdErr,      \* the error returned by the last Reader operation
    rdRec,      \* the *Record returned by the last Read, or Nil
    got,        \* the Records of the Reads that returned no error, in order
    all,        \* the slice returned by ReadAll
    w,          \* the *Writer returned by NewWriter, or Nil
    cw,         \* the *csv.Writer: its buffer and its sticky error
    wErr,       \* the error returned by the last Writer operation
    rec,        \* the caller's write Record (Record.fields)
    setLog,     \* the Set calls made on rec, in order
    codecRows,  \* the rows csv.Writer.Write accepted, in order
    out,        \* the text that reached the destination of the csv.Writer
    sinkFails,  \* TRUE when the destination of the csv.Writer rejects writes
    before,     \* the csv.Writer, destination and rows before the last Writer call
    calls,      \* number of calls the caller made after the constructor
    probe,      \* the argument of the last pure call made by the caller
    res,        \* the result of the last pure call made by the caller
    mutex,      \* the goroutine holding the mutex of the Reader or Writer, or 0
    threads,    \* the goroutines calling one Reader or Writer: where each is
    returned    \* the calls that returned, in order: goroutine and results

vars == <<pc, op, src, hdrArg, input, inputPrev, rd, rdErr, rdRec, got, all, w, cw, wErr, rec,
          setLog, codecRows, out, sinkFails, before, calls, probe, res,
          mutex, threads, returned>>

readerVars == <<src, hdrArg, input, inputPrev, rd, rdErr, rdRec, got, all>>

writerVars == <<w, cw, wErr, codecRows, out, sinkFails, before>>

recordVars == <<rec, setLog>>

pureVars == <<probe, res>>

goVars == <<mutex, threads, returned>>

Nil == [kind |-> "nil-pointer"]

-----------------------------------------------------------------------------
(* Bounds of the model *)

\* longest header the caller passes
MaxHeader == 2
\* number of rows (or errors) the csv source holds
MaxRows == 2
\* number of calls the caller makes on a Writer and its Record
MaxCalls == 3
\* longest string drawn from an alphabet
MaxStrLen == 2
\* number of goroutines calling one Reader or one Writer
MaxGo == 2

-----------------------------------------------------------------------------
(* Strings *)

SetMin(S) == CHOOSE x \in S : \A y \in S : x <= y

\* no element occurs twice in the sequence h
NoRepeat(h) == \A i, j \in 1..Len(h) : h[i] = h[j] => i = j

RECURSIVE Concat(_)
\* the concatenation of a sequence of strings
Concat(ss) == IF ss = <<>> THEN <<>> ELSE Head(ss) \o Concat(Tail(ss))

\* all strings over alphabet A of length at most n
StringsUpTo(A, n) == UNION {[1..k -> A] : k \in 0..n}

Digits == <<"0", "1", "2", "3", "4", "5", "6", "7", "8", "9">>

IsDigit(c) == c \in {Digits[i] : i \in 1..10}

DigitVal(c) == (CHOOSE i \in 1..10 : Digits[i] = c) - 1

RECURSIVE Itoa(_)
\* strconv decimal rendering of an integer, as fmt's %v prints it
Itoa(n) ==
    IF n < 0 THEN <<"-">> \o Itoa(-n)
    ELSE IF n < 10 THEN <<Digits[n + 1]>>
    ELSE Itoa(n \div 10) \o <<Digits[(n % 10) + 1]>>

\* two decimal digits, zero padded
TwoDigits(n) == <<Digits[(n \div 10) + 1], Digits[(n % 10) + 1]>>

-----------------------------------------------------------------------------
(* errors.go, and the errors of the collaborators *)

NoErr == [kind |-> "nil"]

ErrDuplicateKey(k) == [kind |-> "ErrDuplicateKey", key |-> k]

ErrUnknownKey(k) == [kind |-> "ErrUnknownKey", key |-> k]

ErrOutOfBounds(k, i) == [kind |-> "ErrOutOfBounds", key |-> k, index |-> i]

ErrWrongType(k, e) == [kind |-> "ErrWrongType", key |-> k, err |-> e]

\* io.EOF
EOF == [kind |-> "io.EOF"]

\* csv.ErrFieldCount, as csv.Reader.Read reports it
ErrFieldCount == [kind |-> "csv.ParseError", err |-> "ErrFieldCount"]

\* a malformed row: csv.ErrBareQuote or csv.ErrQuote
ErrParse(e) == [kind |-> "csv.ParseError", err |-> e]

\* an error of the byte source or of the destination
ErrIO == [kind |-> "io-error"]

\* fmt.Errorf(ctx + ": %s", cause)
Errorf(ctx, cause) == [kind |-> "fmt.Errorf", ctx |-> ctx, cause |-> cause]

\* a run-time panic (index out of range, call of a nil function)
Panic(what) == [kind |-> "panic", what |-> what]

-----------------------------------------------------------------------------
(* Go values held in an interface{} *)

StrV(s) == [t |-> "string", s |-> s]

IntV(n) == [t |-> "int", n |-> n]

BoolV(b) == [t |-> "bool", b |-> b]

NilV == [t |-> "nil"]

\* a time.Time: the date and the clock it shows in its zone, the offset of
\* the zone east of UTC in seconds, and the abbreviation of the zone (the
\* empty string for a zone without name)
DateIn(year, month, day, hour, min, sec, nsec, offset, zone) ==
    [t |-> "time", year |-> year, month |-> month, day |-> day,
     hour |-> hour, min |-> min, sec |-> sec, nsec |-> nsec,
     offset |-> offset, zone |-> zone]

\* time.Date(year, month, day, hour, min, sec, nsec, time.UTC), from fields
\* in their ranges
Date(year, month, day, hour, min, sec, nsec) ==
    DateIn(year, month, day, hour, min, sec, nsec, 0, <<"U", "T", "C">>)

\* time.Local of the process: UTC (TZ is unset or UTC)
LocalZone == [offset |-> 0, zone |-> <<"U", "T", "C">>]

\* a time a caller holds: n minutes after midnight of 2021-01-26 UTC
TimeV(n) == Date(2021, 1, 26, n \div 60, n % 60, 0, 0)

\* a *time.Time a caller holds: &t
PtrV(t) == [t |-> "*time", at |-> t]

\* time's longMonthNames and longDayNames
longMonthNames ==
    <<<<"J", "a", "n", "u", "a", "r", "y">>, <<"F", "e", "b", "r", "u", "a", "r", "y">>, <<"M", "a", "r", "c", "h">>,
      <<"A", "p", "r", "i", "l">>, <<"M", "a", "y">>, <<"J", "u", "n", "e">>, <<"J", "u", "l", "y">>,
      <<"A", "u", "g", "u", "s", "t">>, <<"S", "e", "p", "t", "e", "m", "b", "e", "r">>,
      <<"O", "c", "t", "o", "b", "e", "r">>, <<"N", "o", "v", "e", "m", "b", "e", "r">>,
      <<"D", "e", "c", "e", "m", "b", "e", "r">>>>

longDayNames ==
    <<<<"S", "u", "n", "d", "a", "y">>, <<"M", "o", "n", "d", "a", "y">>, <<"T", "u", "e", "s", "d", "a", "y">>,
      <<"W", "e", "d", "n", "e", "s", "d", "a", "y">>, <<"T", "h", "u", "r", "s", "d", "a", "y">>,
      <<"F", "r", "i", "d", "a", "y">>, <<"S", "a", "t", "u", "r", "d", "a", "y">>>>

\* time's shortMonthNames and shortDayNames
shortMonthNames == [m \in 1..12 |-> SubSeq(longMonthNames[m], 1, 3)]

shortDayNames == [d \in 1..7 |-> SubSeq(longDayNames[d], 1, 3)]

UpperCaseLetters ==
    <<"A", "B", "C", "D", "E", "F", "G", "H", "I", "J", "K", "L", "M",
      "N", "O", "P", "Q", "R", "S", "T", "U", "V", "W", "X", "Y", "Z">>

LowerCaseLetters ==
    <<"a", "b", "c", "d", "e", "f", "g", "h", "i", "j", "k", "l", "m",
      "n", "o", "p", "q", "r", "s", "t", "u", "v", "w", "x", "y", "z">>

\* time's startsWithLowerCase(str)
startsWithLowerCase(s) ==
    s # <<>> /\ \E i \in 1..26 : LowerCaseLetters[i] = s[1]

\* strings.HasPrefix
HasPrefix(s, p) == Len(s) >= Len(p) /\ SubSeq(s, 1, Len(p)) = p

\* s[n:] of Go
From(s, n) == SubSeq(s, n + 1, Len(s))

RECURSIVE runLength(_, _)
\* the number of characters ch the string starts with
runLength(s, ch) ==
    IF s # <<>> /\ s[1] = ch THEN 1 + runLength(Tail(s), ch) ELSE 0

\* a layout element found at the head of a string: its code, the number of
\* characters it takes, how many of them stay text of the prefix, and for a
\* fraction of a second its number of digits and its separator
Std(std, len) == [std |-> std, len |-> len, lead |-> 0, digits |-> 0, sep |-> ""]

\* no element
NoStd == Std("", 0)

\* time's std0x: the elements "01" to "06"
std0x ==
    <<"stdZeroMonth", "stdZeroDay", "stdZeroHour12", "stdZeroMinute",
      "stdZeroSecond", "stdYear">>

\* the switch of time's nextStdChunk on the character at the head of s: the
\* element the string starts with, or none
stdChunkAt(s) ==
    CASE s[1] = "J" ->
           IF ~HasPrefix(s, <<"J", "a", "n">>) THEN NoStd
           ELSE IF HasPrefix(s, <<"J", "a", "n", "u", "a", "r", "y">>) THEN Std("stdLongMonth", 7)
           ELSE IF ~startsWithLowerCase(From(s, 3)) THEN Std("stdMonth", 3)
           ELSE NoStd
      [] s[1] = "M" ->
           IF HasPrefix(s, <<"M", "o", "n">>)
           THEN IF HasPrefix(s, <<"M", "o", "n", "d", "a", "y">>) THEN Std("stdLongWeekDay", 6)
                ELSE IF ~startsWithLowerCase(From(s, 3)) THEN Std("stdWeekDay", 3)
                ELSE NoStd
           ELSE IF HasPrefix(s, <<"M", "S", "T">>) THEN Std("stdTZ", 3)
           ELSE NoStd
      [] s[1] = "0" ->
           IF Len(s) >= 2 /\ s[2] \in {"1", "2", "3", "4", "5", "6"}
           THEN Std(std0x[DigitVal(s[2])], 2)
           ELSE IF HasPrefix(s, <<"0", "0", "2">>) THEN Std("stdZeroYearDay", 3)
           ELSE NoStd
      [] s[1] = "1" ->
           IF HasPrefix(s, <<"1", "5">>) THEN Std("stdHour", 2) ELSE Std("stdNumMonth", 1)
      [] s[1] = "2" ->
           IF HasPrefix(s, <<"2", "0", "0", "6">>) THEN Std("stdLongYear", 4) ELSE Std("stdDay", 1)
      [] s[1] = "_" ->
           IF Len(s) >= 2 /\ s[2] = "2"
           \* "_2006" is the text "_" followed by the long year
           THEN IF HasPrefix(s, <<"_", "2", "0", "0", "6">>)
                THEN [Std("stdLongYear", 5) EXCEPT !.lead = 1]
                ELSE Std("stdUnderDay", 2)
           ELSE IF HasPrefix(s, <<"_", "_", "2">>) THEN Std("stdUnderYearDay", 3)
           ELSE NoStd
      [] s[1] = "3" -> Std("stdHour12", 1)
      [] s[1] = "4" -> Std("stdMinute", 1)
      [] s[1] = "5" -> Std("stdSecond", 1)
      [] s[1] = "P" -> IF HasPrefix(s, <<"P", "M">>) THEN Std("stdPM", 2) ELSE NoStd
      [] s[1] = "p" -> IF HasPrefix(s, <<"p", "m">>) THEN Std("stdpm", 2) ELSE NoStd
      [] s[1] = "-" ->
           IF HasPrefix(s, <<"-", "0", "7", "0", "0", "0", "0">>) THEN Std("stdNumSecondsTz", 7)
           ELSE IF HasPrefix(s, <<"-", "0", "7", ":", "0", "0", ":", "0", "0">>) THEN Std("stdNumColonSecondsTZ", 9)
           ELSE IF HasPrefix(s, <<"-", "0", "7", "0", "0">>) THEN Std("stdNumTZ", 5)
           ELSE IF HasPrefix(s, <<"-", "0", "7", ":", "0", "0">>) THEN Std("stdNumColonTZ", 6)
           ELSE IF HasPrefix(s, <<"-", "0", "7">>) THEN Std("stdNumShortTZ", 3)
           ELSE NoStd
      [] s[1] = "Z" ->
           IF HasPrefix(s, <<"Z", "0", "7", "0", "0", "0", "0">>) THEN Std("stdISO8601SecondsTZ", 7)
           ELSE IF HasPrefix(s, <<"Z", "0", "7", ":", "0", "0", ":", "0", "0">>) THEN Std("stdISO8601ColonSecondsTZ", 9)
           ELSE IF HasPrefix(s, <<"Z", "0", "7", "0", "0">>) THEN Std("stdISO8601TZ", 5)
           ELSE IF HasPrefix(s, <<"Z", "0", "7", ":", "0", "0">>) THEN Std("stdISO8601ColonTZ", 6)
           ELSE IF HasPrefix(s, <<"Z", "0", "7">>) THEN Std("stdISO8601ShortTZ", 3)
           ELSE NoStd
      [] s[1] \in {".", ","} ->
           \* ".000" or ".999", a run of one digit that no digit follows
           IF Len(s) < 2 \/ s[2] \notin {"0", "9"} THEN NoStd
           ELSE CHOOSE e \in
                    { IF Len(s) > n + 1 /\ IsDigit(s[n + 2]) THEN NoStd
                      ELSE [std |-> IF s[2] = "0" THEN "stdFracSecond0"
                                    ELSE "stdFracSecond9",
                            len |-> n + 1, lead |-> 0, digits |-> n, sep |-> s[1]] :
                      n \in {runLength(Tail(s), s[2])} } : TRUE
      [] OTHER -> NoStd

\* time's nextStdChunk(layout): the text before the first element of the
\* layout, the element, and the text after it
nextStdChunk(layout) ==
    CHOOSE chunk \in
        { IF \A i \in 1..Len(layout) : at[i].std = ""
          THEN [prefix |-> layout, std |-> "", digits |-> 0, sep |-> "",
                suffix |-> <<>>]
          ELSE LET i == SetMin({j \in 1..Len(layout) : at[j].std # ""})
               IN  [prefix |-> SubSeq(layout, 1, i - 1 + at[i].lead),
                    std |-> at[i].std, digits |-> at[i].digits, sep |-> at[i].sep,
                    suffix |-> From(layout, i - 1 + at[i].len)] :
          at \in {[i \in 1..Len(layout) |-> stdChunkAt(From(layout, i - 1))]} } : TRUE

\* time's isLeap(year)
isLeap(year) == year % 4 = 0 /\ (year % 100 # 0 \/ year % 400 = 0)

\* time's daysIn(m, year)
daysIn(m, year) ==
    IF m = 2 THEN (IF isLeap(year) THEN 29 ELSE 28)
    ELSE IF m \in {4, 6, 9, 11} THEN 30 ELSE 31

RECURSIVE daysBeforeMonth(_, _)
\* the days of the year before the month m
daysBeforeMonth(m, year) ==
    IF m = 1 THEN 0 ELSE daysBeforeMonth(m - 1, year) + daysIn(m - 1, year)

\* Time.YearDay()
YearDay(t) == daysBeforeMonth(t.month, t.year) + t.day

\* Time.Weekday(), Sunday = 0: the days since 0000-01-01, a Saturday
Weekday(t) ==
    LET y == t.year
        days == 365 * y + ((y + 3) \div 4) - ((y + 99) \div 100)
                + ((y + 399) \div 400) + YearDay(t) - 1
    IN  (6 + days) % 7

\* time's appendInt(b, x, width): the sign of a negative x, then its digits
\* zero padded to the width
appendInt(x, width) ==
    CHOOSE padded \in
        { (IF x < 0 THEN <<"-">> ELSE <<>>)
          \o [i \in 1..(width - Len(ds)) |-> "0"] \o ds :
          ds \in {Itoa(IF x < 0 THEN -x ELSE x)} } : TRUE

\* what AppendFormat appends for an element: a text as it is, or a number
\* through appendInt
Text(s) == [number |-> FALSE, text |-> s, x |-> 0, width |-> 0]

Number(x, width) == [number |-> TRUE, text |-> <<>>, x |-> x, width |-> width]

RECURSIVE appendAll(_)
\* the texts and numbers appended one after the other
appendAll(items) ==
    IF items = <<>> THEN <<>>
    ELSE (IF Head(items).number THEN appendInt(Head(items).x, Head(items).width)
          ELSE Head(items).text)
         \o appendAll(Tail(items))

RECURSIVE pow10(_)
pow10(k) == IF k = 0 THEN 1 ELSE 10 * pow10(k - 1)

RECURSIVE trimZeros(_, _)
\* the n-digit number x without its trailing zeros: [x, width]
trimZeros(x, n) ==
    IF n > 0 /\ x % 10 = 0 THEN trimZeros(x \div 10, n - 1)
    ELSE [x |-> x, width |-> n]

\* time's appendNano(b, nanosec, std): the separator and the first digits of
\* the nine digits of the nanoseconds; the element ".999" writes nothing for
\* 0 ns, drops trailing zeros, and the separator with them when no digit is
\* left
appendNano(nanosec, c) ==
    LET n     == IF c.digits < 9 THEN c.digits ELSE 9
        first == nanosec \div pow10(9 - n)
    IN  IF c.std = "stdFracSecond0" THEN <<Text(<<c.sep>>), Number(first, n)>>
        ELSE IF first = 0 THEN <<>>
        ELSE CHOOSE items \in
                 { <<Text(<<c.sep>>), Number(d.x, d.width)>> :
                   d \in {trimZeros(first, n)} } : TRUE

\* the elements "Z07:00" and the like, which print "Z" for UTC
stdISO8601 ==
    {"stdISO8601TZ", "stdISO8601ColonTZ", "stdISO8601SecondsTZ",
     "stdISO8601ShortTZ", "stdISO8601ColonSecondsTZ"}

\* the elements "-07:00" and the like
stdNum ==
    {"stdNumTZ", "stdNumColonTZ", "stdNumSecondsTz", "stdNumShortTZ",
     "stdNumColonSecondsTZ"}

\* x / y of Go for y > 0: the quotient rounded towards zero
goQuo(x, y) == IF x < 0 THEN -((-x) \div y) ELSE x \div y

\* x % y of Go for y > 0: the remainder with the sign of x
goRem(x, y) == x - y * goQuo(x, y)

\* the numeric zone AppendFormat writes for the offset: the sign, the hours,
\* and as the element asks the minutes, the seconds and the colons
appendZone(std, offset) ==
    LET neg       == goQuo(offset, 60) < 0
        zone      == IF neg THEN -goQuo(offset, 60) ELSE goQuo(offset, 60)
        absoffset == IF neg THEN -offset ELSE offset
        colon     == std \in {"stdISO8601ColonTZ", "stdNumColonTZ",
                              "stdISO8601ColonSecondsTZ", "stdNumColonSecondsTZ"}
        short     == std \in {"stdNumShortTZ", "stdISO8601ShortTZ"}
        seconds   == std \in {"stdISO8601SecondsTZ", "stdNumSecondsTz",
                              "stdNumColonSecondsTZ", "stdISO8601ColonSecondsTZ"}
        colons    == std \in {"stdNumColonSecondsTZ", "stdISO8601ColonSecondsTZ"}
    IN  <<Text(IF neg THEN <<"-">> ELSE <<"+">>), Number(zone \div 60, 2),
          Text(IF colon THEN <<":">> ELSE <<>>)>>
        \o (IF short THEN <<>> ELSE <<Number(zone % 60, 2)>>)
        \o (IF ~seconds THEN <<>>
            ELSE <<Text(IF colons THEN <<":">> ELSE <<>>),
                   Number(goRem(absoffset, 60), 2)>>)

\* the hour of the 12-hour clock: noon is 12PM, midnight is 12AM
hour12(hour) == IF hour % 12 = 0 THEN 12 ELSE hour % 12

\* the case of the element c in the switch of AppendFormat: what is appended
\* for the time t, whose day of the year and day of the week are yday, wday
stdItems(t, c, yday, wday) ==
    CASE c.std = "stdMonth" -> <<Text(shortMonthNames[t.month])>>
      [] c.std = "stdLongMonth" -> <<Text(longMonthNames[t.month])>>
      [] c.std = "stdWeekDay" -> <<Text(shortDayNames[wday + 1])>>
      [] c.std = "stdLongWeekDay" -> <<Text(longDayNames[wday + 1])>>
      [] c.std = "stdPM" -> <<Text(IF t.hour >= 12 THEN <<"P", "M">> ELSE <<"A", "M">>)>>
      [] c.std = "stdpm" -> <<Text(IF t.hour >= 12 THEN <<"p", "m">> ELSE <<"a", "m">>)>>
      [] c.std \in stdISO8601 \cup stdNum \cup {"stdTZ"} ->
           IF t.offset = 0 /\ c.std \in stdISO8601 THEN <<Text(<<"Z">>)>>
           \* the abbreviation of the zone when it has one
           ELSE IF c.std = "stdTZ" /\ t.zone # <<>> THEN <<Text(t.zone)>>
           ELSE appendZone(IF c.std = "stdTZ" THEN "stdNumTZ" ELSE c.std, t.offset)
      [] c.std \in {"stdFracSecond0", "stdFracSecond9"} -> appendNano(t.nsec, c)
      [] c.std = "stdYear" ->
           <<Number((IF t.year < 0 THEN -t.year ELSE t.year) % 100, 2)>>
      [] c.std = "stdLongYear"   -> <<Number(t.year, 4)>>
      [] c.std = "stdNumMonth"   -> <<Number(t.month, 0)>>
      [] c.std = "stdZeroMonth"  -> <<Number(t.month, 2)>>
      [] c.std = "stdDay"        -> <<Number(t.day, 0)>>
      [] c.std = "stdUnderDay" ->
           <<Text(IF t.day < 10 THEN <<" ">> ELSE <<>>), Number(t.day, 0)>>
      [] c.std = "stdZeroDay"    -> <<Number(t.day, 2)>>
      [] c.std = "stdUnderYearDay" ->
           <<Text(IF yday < 10 THEN <<" ", " ">>
                  ELSE IF yday < 100 THEN <<" ">> ELSE <<>>), Number(yday, 0)>>
      [] c.std = "stdZeroYearDay" -> <<Number(yday, 3)>>
      [] c.std = "stdHour"       -> <<Number(t.hour, 2)>>
      [] c.std = "stdHour12"     -> <<Number(hour12(t.hour), 0)>>
      [] c.std = "stdZeroHour12" -> <<Number(hour12(t.hour), 2)>>
      [] c.std = "stdMinute"     -> <<Number(t.min, 0)>>
      [] c.std = "stdZeroMinute" -> <<Number(t.min, 2)>>
      [] c.std = "stdSecond"     -> <<Number(t.sec, 0)>>
      [] c.std = "stdZeroSecond" -> <<Number(t.sec, 2)>>

\* the text AppendFormat writes for the element c of the layout
formatStd(t, c) ==
    appendAll(CHOOSE items \in
                  { stdItems(t, c, d.yday, d.wday) :
                    d \in {[yday |-> YearDay(t), wday |-> Weekday(t)]} } : TRUE)

RECURSIVE TimeFormat(_, _)
\* Time.Format(layout): the loop of AppendFormat over the layout
TimeFormat(layout, t) ==
    CHOOSE text \in
        { IF c.std = "" THEN c.prefix
          ELSE c.prefix \o formatStd(t, c) \o TimeFormat(c.suffix, t) :
          c \in {nextStdChunk(layout)} } : TRUE

\* the layout "2006-01-02 15:04:05"
LayoutDateTime == <<"2", "0", "0", "6", "-", "0", "1", "-", "0", "2", " ", "1", "5", ":", "0", "4", ":", "0", "5">>

\* the layout of Time.String(), "2006-01-02 15:04:05.999999999 -0700 MST"
LayoutString ==
    LayoutDateTime \o <<".", "9", "9", "9", "9", "9", "9", "9", "9", "9", " ", "-", "0", "7", "0", "0", " ", "M", "S", "T">>

\* time.Time.String() of a time without monotonic clock reading
TimeString(t) == TimeFormat(LayoutString, t)

\* the layout "15:04"
LayoutHM == <<"1", "5", ":", "0", "4">>

\* time.ANSIC, "Mon Jan _2 15:04:05 2006"
LayoutANSIC == <<"M", "o", "n", " ", "J", "a", "n", " ", "_", "2", " ", "1", "5", ":", "0", "4", ":", "0", "5", " ", "2", "0", "0", "6">>

\* time.UnixDate, "Mon Jan _2 15:04:05 MST 2006" (README.md)
LayoutUnixDate == <<"M", "o", "n", " ", "J", "a", "n", " ", "_", "2", " ", "1", "5", ":", "0", "4", ":", "0", "5", " ", "M", "S", "T", " ", "2", "0", "0", "6">>

\* the layout "Monday 02 Jan 2006" (README.md)
LayoutLongDay == <<"M", "o", "n", "d", "a", "y", " ", "0", "2", " ", "J", "a", "n", " ", "2", "0", "0", "6">>

\* fmt.Sprintf("%v", v)
Sprint(v) ==
    CASE v.t = "string" -> v.s
      [] v.t = "int"    -> Itoa(v.n)
      [] v.t = "bool"   -> IF v.b THEN <<"t", "r", "u", "e">>
                                  ELSE <<"f", "a", "l", "s", "e">>
      [] v.t = "nil"    -> <<"<", "n", "i", "l", ">">>
      \* a *time.Time is a fmt.Stringer as a time.Time is: the String() of the
      \* time it points to
      [] v.t \in {"time", "*time"} -> TimeString(IF v.t = "time" THEN v ELSE v.at)

-----------------------------------------------------------------------------
(* formatter.go: a Formatter is a function value; it is modelled by the     *)
(* data that determines it, and Format applies it                          *)

\* the nil Formatter
NoFormatter == [k |-> "nil"]

DefaultFormatter == [k |-> "defaultFormatter"]

\* StringFormatter(format) for the format  pre + "%v" + suf
StringFormatter(pre, suf) == [k |-> "StringFormatter", pre |-> pre, suf |-> suf]

TimeFormatter(layout) == [k |-> "TimeFormatter", layout |-> layout]

\* a caller's formatter that always fails (errFormatter of the tests)
ErrFormatter == [k |-> "errFormatter"]

\* chainFormatter(formatters...): the closure over the given formatters
chainFormatter(fs) == [k |-> "chainFormatter", fs |-> fs]

\* the result pair (string, error) of a formatter or of Get
Ok(s) == [s |-> s, err |-> NoErr]

Fail(e) == [s |-> <<>>, err |-> e]

\* defaultFormatter(value)
defaultFormatter(v) == Ok(Sprint(v))

\* the function returned by StringFormatter(format), applied to v
stringFormat(f, v) == Ok(f.pre \o Sprint(v) \o f.suf)

\* the function returned by TimeFormatter(layout), applied to v
timeFormat(f, v) ==
    IF v.t \in {"time", "*time"}
    THEN Ok(TimeFormat(f.layout, IF v.t = "time" THEN v ELSE v.at))
    ELSE Fail(Errorf("is not a time", v))

RECURSIVE Format(_, _)
RECURSIVE chainFormat(_, _)

\* the function returned by chainFormatter(fs...), applied to v: the loop over
\* fs, the last formatter's result returned as it is
chainFormat(fs, v) ==
    IF fs = <<>> THEN Ok(<<>>)
    ELSE IF Len(fs) = 1 THEN Format(fs[1], v)
    ELSE LET r == Format(fs[1], v)
         IN  IF r.err # NoErr THEN Fail(r.err)
             ELSE chainFormat(Tail(fs), StrV(r.s))

\* the call f(v) of a Formatter
Format(f, v) ==
    CASE f.k = "defaultFormatter" -> defaultFormatter(v)
      [] f.k = "StringFormatter"  -> stringFormat(f, v)
      [] f.k = "TimeFormatter"    -> timeFormat(f, v)
      [] f.k = "errFormatter"     -> Fail(Errorf("formatter error", NilV))
      [] f.k = "chainFormatter"   -> chainFormat(f.fs, v)
      [] f.k = "nil"              -> Fail(Panic("call of nil Formatter"))

\* the formatter kept from a variadic formatter list (Set, SetDefault)
variadicFormatter(fmts) ==
    IF Len(fmts) = 1 THEN fmts[1]
    ELSE IF Len(fmts) > 1 THEN chainFormatter(fmts)
    ELSE NoFormatter

-----------------------------------------------------------------------------
(* record.go: a Record is its fields map, key -> field{value, formatter}    *)

\* m[k] = v on a Go map
MapPut(m, k, v) == [x \in (DOMAIN m) \cup {k} |-> IF x = k THEN v ELSE m[x]]

EmptyMap == [x \in {} |-> Nil]

Field(value, formatter) == [value |-> value, formatter |-> formatter]

NewRecord == EmptyMap

\* a faulty Set: without formatters, the formatter of an earlier entry of
\* the name is retained
SetKeepsFormatter(r, key, value, fmts) ==
    MapPut(r, key, Field(value,
        IF fmts = <<>> /\ key \in DOMAIN r THEN r[key].formatter
        ELSE variadicFormatter(fmts)))

\* Record.Set(key, value, formatter...)
Set(r, key, value, fmts) == MapPut(r, key, Field(value, variadicFormatter(fmts)))

\* a faulty Get: a name without entry reads as the zero value of the map
GetZeroValue(r, key) ==
    IF key \notin DOMAIN r THEN Ok(<<>>)
    ELSE IF r[key].value.t = "string" THEN Ok(r[key].value.s)
    ELSE defaultFormatter(r[key].value)

\* Record.Get(key)
Get(r, key) ==
    IF key \notin DOMAIN r THEN Fail(ErrUnknownKey(key))
    ELSE IF r[key].value.t = "string" THEN Ok(r[key].value.s)
    ELSE defaultFormatter(r[key].value)

-----------------------------------------------------------------------------
(* The parsers of strconv and time that the typed accessors call.  A result *)
(* is [ok, val]; the error of a failed parse is the parser's own.  No       *)
(* string of the model is long enough for a range error of ParseInt or     *)
(* ParseFloat, or for an overflow of ParseDuration.                        *)

Parsed(v) == [ok |-> TRUE, val |-> v]

ParseFailure(fn) == [ok |-> FALSE, val |-> [kind |-> "parse-error", fn |-> fn]]

RECURSIVE digitsValue(_, _)
\* the loop of strconv.ParseUint over the characters of s, base 10: the value
\* read so far is n; a character that is no digit is a syntax error (-1)
digitsValue(s, n) ==
    IF s = <<>> THEN n
    ELSE IF ~IsDigit(Head(s)) THEN -1
    ELSE digitsValue(Tail(s), n * 10 + DigitVal(Head(s)))

\* strconv.ParseInt(s, 10, 64)
ParseInt(s) ==
    IF s = <<>> THEN ParseFailure("strconv.ParseInt")
    ELSE LET neg  == Head(s) = "-"
             body == IF Head(s) \in {"+", "-"} THEN Tail(s) ELSE s
             un   == IF body = <<>> THEN -1 ELSE digitsValue(body, 0)
         IN  IF un < 0 THEN ParseFailure("strconv.ParseInt")
             ELSE Parsed(IF neg THEN -un ELSE un)

RECURSIVE skipDigits(_)
\* s after its leading decimal digits
skipDigits(s) ==
    IF s # <<>> /\ IsDigit(Head(s)) THEN skipDigits(Tail(s)) ELSE s

\* strconv.ParseFloat(s, 64) on strings without 'x', '_', 'i' and 'n' (no
\* hexadecimal mantissa, no underscore, no "inf", no "nan"): readFloat, and
\* the check that it consumed the whole string.  The float64 is kept as the
\* text it was read from.
ParseFloat(s) ==
    LET s1   == IF s # <<>> /\ Head(s) \in {"+", "-"} THEN Tail(s) ELSE s
        \* digits, with at most one '.' among them
        int  == skipDigits(s1)
        dot  == int # <<>> /\ Head(int) = "."
        frac == IF dot THEN skipDigits(Tail(int)) ELSE int
        nd   == (Len(s1) - Len(int))
                + (IF dot THEN Len(Tail(int)) - Len(frac) ELSE 0)
        \* optional exponent
        hasE == frac # <<>> /\ Head(frac) \in {"e", "E"}
        e1   == IF hasE THEN Tail(frac) ELSE frac
        e2   == IF hasE /\ e1 # <<>> /\ Head(e1) \in {"+", "-"} THEN Tail(e1) ELSE e1
        e3   == skipDigits(e2)
    IN  IF s = <<>> \/ nd = 0 THEN ParseFailure("strconv.ParseFloat")
        ELSE IF hasE /\ (e2 = <<>> \/ ~IsDigit(Head(e2)))
        THEN ParseFailure("strconv.ParseFloat")
        ELSE IF e3 # <<>> THEN ParseFailure("strconv.ParseFloat")
        ELSE Parsed([float64 |-> s])

\* time's unitMap, without the units written with 'n', 'u' or a micro sign
DurationUnits == {<<"s">>, <<"m">>, <<"h">>, <<"m", "s">>}

RECURSIVE skipUnit(_)
\* s after its leading characters that are neither '.' nor a digit
skipUnit(s) ==
    IF s # <<>> /\ Head(s) # "." /\ ~IsDigit(Head(s)) THEN skipUnit(Tail(s)) ELSE s

RECURSIVE durationGroups(_)
\* the loop `for s != ""` of time.ParseDuration: TRUE when every group of s
\* is a number with a known unit
durationGroups(s) ==
    IF s = <<>> THEN TRUE
    ELSE IF ~(Head(s) = "." \/ IsDigit(Head(s))) THEN FALSE
    ELSE LET a    == skipDigits(s)
             pre  == Len(a) # Len(s)
             dot  == a # <<>> /\ Head(a) = "."
             b    == IF dot THEN skipDigits(Tail(a)) ELSE a
             post == dot /\ Len(b) # Len(Tail(a))
             c    == skipUnit(b)
             u    == SubSeq(b, 1, Len(b) - Len(c))
         IN  IF ~pre /\ ~post THEN FALSE
             ELSE IF u = <<>> THEN FALSE
             ELSE IF u \notin DurationUnits THEN FALSE
             ELSE durationGroups(c)

\* time.ParseDuration(s); the Duration is kept as the text it was read from
ParseDuration(s) ==
    LET body == IF s # <<>> /\ Head(s) \in {"+", "-"} THEN Tail(s) ELSE s
    IN  IF body = <<"0">> THEN Parsed([duration |-> <<"0">>])
        ELSE IF body = <<>> THEN ParseFailure("time.ParseDuration")
        ELSE IF durationGroups(body) THEN Parsed([duration |-> s])
        ELSE ParseFailure("time.ParseDuration")

\* time's isDigit(s, i) for i counted from 0
isDigit(s, i) == Len(s) > i /\ IsDigit(s[i + 1])

\* time's getnum(s, fixed): [ok, n, rest]
getnum(s, fixed) ==
    IF ~isDigit(s, 0) THEN [ok |-> FALSE, n |-> 0, rest |-> s]
    ELSE IF ~isDigit(s, 1)
    THEN IF fixed THEN [ok |-> FALSE, n |-> 0, rest |-> s]
         ELSE [ok |-> TRUE, n |-> DigitVal(s[1]), rest |-> Tail(s)]
    ELSE [ok |-> TRUE, n |-> DigitVal(s[1]) * 10 + DigitVal(s[2]),
          rest |-> Tail(Tail(s))]

RECURSIVE leadingDigits(_)
\* the number of digits the string starts with
leadingDigits(s) ==
    IF s # <<>> /\ IsDigit(s[1]) THEN 1 + leadingDigits(Tail(s)) ELSE 0

\* time's getnum3(s, fixed): up to three digits, exactly three when fixed
getnum3(s, fixed) ==
    CHOOSE g \in
        { IF i = 0 \/ (fixed /\ i # 3) THEN [ok |-> FALSE, n |-> 0, rest |-> s]
          ELSE [ok |-> TRUE, n |-> digitsValue(SubSeq(s, 1, i), 0),
                rest |-> From(s, i)] :
          i \in {IF leadingDigits(s) > 3 THEN 3 ELSE leadingDigits(s)} } : TRUE

\* time's atoi(s): an optional sign and digits up to the end of the string
\* (no digit at all reads as 0); [ok, n]
atoi(s) ==
    LET neg  == s # <<>> /\ s[1] = "-"
        body == IF s # <<>> /\ s[1] \in {"+", "-"} THEN Tail(s) ELSE s
    IN  IF leadingDigits(body) < Len(body) THEN [ok |-> FALSE, n |-> 0]
        ELSE [ok |-> TRUE,
              n |-> IF neg THEN -digitsValue(body, 0) ELSE digitsValue(body, 0)]

RECURSIVE cutspace(_)
\* time's cutspace(s): s without its leading spaces
cutspace(s) == IF s # <<>> /\ s[1] = " " THEN cutspace(Tail(s)) ELSE s

RECURSIVE skip(_, _)
\* time's skip(value, prefix): [ok, rest]; a space of the prefix stands for
\* any number of spaces of the value, at its place or at the end of the value
skip(value, prefix) ==
    IF prefix = <<>> THEN [ok |-> TRUE, rest |-> value]
    ELSE IF prefix[1] = " "
    THEN IF value # <<>> /\ value[1] # " " THEN [ok |-> FALSE, rest |-> value]
         ELSE skip(cutspace(value), cutspace(prefix))
    ELSE IF value = <<>> \/ value[1] # prefix[1] THEN [ok |-> FALSE, rest |-> value]
    ELSE skip(Tail(value), Tail(prefix))

\* the lower case of an ASCII letter, the character itself otherwise
toLower(c) ==
    IF \E i \in 1..26 : UpperCaseLetters[i] = c
    THEN LowerCaseLetters[CHOOSE i \in 1..26 : UpperCaseLetters[i] = c]
    ELSE c

\* time's match(s1, s2): equal up to the case of letters
match(s1, s2) ==
    \A i \in 1..Len(s1) :
        \/ s1[i] = s2[i]
        \/ /\ toLower(s1[i]) = toLower(s2[i])
           /\ \E j \in 1..26 : LowerCaseLetters[j] = toLower(s1[i])

\* time's lookup(tab, val): [ok, i, rest], i counted from 0
lookup(tab, val) ==
    LET hits == {i \in 1..Len(tab) :
                    Len(val) >= Len(tab[i]) /\ match(SubSeq(val, 1, Len(tab[i])), tab[i])}
    IN  IF hits = {} THEN [ok |-> FALSE, i |-> -1, rest |-> val]
        ELSE [ok |-> TRUE, i |-> SetMin(hits) - 1,
              rest |-> From(val, Len(tab[SetMin(hits)]))]

\* time's commaOrPeriod(b)
commaOrPeriod(b) == b \in {".", ","}

\* time's parseNanoseconds(value, nbytes): the fraction of nbytes characters,
\* a separator and a number, of which nine digits at most count; [ok, ns]
parseNanoseconds(value, nbytes) ==
    CHOOSE r \in
        { IF ~commaOrPeriod(value[1]) \/ ~a.ok \/ a.n < 0
          THEN [ok |-> FALSE, ns |-> 0]
          ELSE [ok |-> TRUE,
                ns |-> a.n * pow10(10 - (IF nbytes > 10 THEN 10 ELSE nbytes))] :
          a \in {atoi(SubSeq(value, 2, IF nbytes > 10 THEN 10 ELSE nbytes))} } : TRUE

\* time's parseSignedOffset(value): the length of a sign and an hour of 23 at
\* most at the head of the value, or 0
parseSignedOffset(value) ==
    IF value = <<>> \/ value[1] \notin {"+", "-"} THEN 0
    ELSE IF leadingDigits(Tail(value)) = 0 THEN 0
    ELSE IF digitsValue(SubSeq(value, 2, 1 + leadingDigits(Tail(value))), 0) > 23
    THEN 0
    ELSE 1 + leadingDigits(Tail(value))

\* the number of upper case letters the string starts with, counted up to 6
upperRun(value) ==
    LET stops == {i \in 1..6 :
                     i > Len(value) \/ \A j \in 1..26 : UpperCaseLetters[j] # value[i]}
    IN  IF stops = {} THEN 6 ELSE SetMin(stops) - 1

\* time's parseTimeZone(value): the length of the zone abbreviation at the
\* head of the value; [ok, length]
parseTimeZone(value) ==
    IF Len(value) < 3 THEN [ok |-> FALSE, length |-> 0]
    ELSE IF HasPrefix(value, <<"C", "h", "S", "T">>) \/ HasPrefix(value, <<"M", "e", "S", "T">>)
    THEN [ok |-> TRUE, length |-> 4]
    ELSE IF HasPrefix(value, <<"G", "M", "T">>)
    THEN [ok |-> TRUE,
          length |-> IF Len(value) = 3 THEN 3
                     ELSE 3 + parseSignedOffset(From(value, 3))]
    ELSE IF value[1] \in {"+", "-"}
    THEN [ok |-> parseSignedOffset(value) > 0, length |-> parseSignedOffset(value)]
    ELSE CASE upperRun(value) = 3 -> [ok |-> TRUE, length |-> 3]
           [] upperRun(value) = 4 /\ (value[4] = "T" \/ HasPrefix(value, <<"W", "I", "T", "A">>)) ->
                [ok |-> TRUE, length |-> 4]
           [] upperRun(value) = 5 /\ value[5] = "T" -> [ok |-> TRUE, length |-> 5]
           [] OTHER -> [ok |-> FALSE, length |-> 0]

\* the variables time.Parse starts from: month, day and day of the year are
\* not set, no zone is known
parseStart ==
    [year |-> 0, month |-> -1, day |-> -1, yday |-> -1, hour |-> 0, min |-> 0,
     sec |-> 0, nsec |-> 0, amSet |-> FALSE, pmSet |-> FALSE, z |-> "",
     zoneOffset |-> -1, zoneName |-> <<>>]

\* the sign, the hours, the minutes and the seconds of a numeric zone in the
\* value, cut as the element std says: [ok, sign, hour, min, seconds, rest]
zoneParts(std, value) ==
    LET cut(n, ok, hour, min, seconds) ==
            IF Len(value) < n \/ ~ok
            THEN [ok |-> FALSE, sign |-> "", hour |-> <<>>, min |-> <<>>,
                  seconds |-> <<>>, rest |-> value]
            ELSE [ok |-> TRUE, sign |-> value[1], hour |-> hour, min |-> min,
                  seconds |-> seconds, rest |-> From(value, n)]
    IN  IF std \in {"stdISO8601ColonTZ", "stdNumColonTZ"}
        THEN cut(6, Len(value) >= 6 /\ value[4] = ":",
                 SubSeq(value, 2, 3), SubSeq(value, 5, 6), <<"0", "0">>)
        ELSE IF std \in {"stdNumShortTZ", "stdISO8601ShortTZ"}
        THEN cut(3, TRUE, SubSeq(value, 2, 3), <<"0", "0">>, <<"0", "0">>)
        ELSE IF std \in {"stdISO8601ColonSecondsTZ", "stdNumColonSecondsTZ"}
        THEN cut(9, Len(value) >= 9 /\ value[4] = ":" /\ value[7] = ":",
                 SubSeq(value, 2, 3), SubSeq(value, 5, 6), SubSeq(value, 8, 9))
        ELSE IF std \in {"stdISO8601SecondsTZ", "stdNumSecondsTz"}
        THEN cut(7, TRUE, SubSeq(value, 2, 3), SubSeq(value, 4, 5), SubSeq(value, 6, 7))
        ELSE cut(5, TRUE, SubSeq(value, 2, 3), SubSeq(value, 4, 5), <<"0", "0">>)

\* the case of a numeric zone in the switch of time.Parse
parseZone(std, value, p) ==
    LET bad == [ok |-> FALSE, rest |-> value, p |-> p]
        z   == zoneParts(std, value)
        hr  == getnum(z.hour, TRUE)
        mm  == getnum(z.min, TRUE)
        ss  == getnum(z.seconds, TRUE)
        off == (hr.n * 60 + mm.n) * 60 + ss.n
    IN  IF /\ std \in {"stdISO8601TZ", "stdISO8601ShortTZ", "stdISO8601ColonTZ"}
           /\ value # <<>> /\ value[1] = "Z"
        THEN [ok |-> TRUE, rest |-> Tail(value), p |-> [p EXCEPT !.z = "UTC"]]
        ELSE IF ~z.ok \/ ~hr.ok \/ ~mm.ok \/ ~ss.ok THEN bad
        \* an offset of 24 hours, of 60 minutes or seconds is let through
        ELSE IF hr.n > 24 \/ mm.n > 60 \/ ss.n > 60 THEN bad
        ELSE IF z.sign \notin {"+", "-"} THEN bad
        ELSE [ok |-> TRUE, rest |-> z.rest,
              p |-> [p EXCEPT !.zoneOffset = IF z.sign = "-" THEN -off ELSE off]]

\* one turn of the switch of time.Parse: the element c is read from the
\* value into the variables p; [ok, rest, p].  fracNext tells that the next
\* element of the layout is a fraction of a second.
parseStd(c, value, p, fracNext) ==
    LET std == c.std
        bad == [ok |-> FALSE, rest |-> value, p |-> p]
        num(fixed, field, lo, hi) ==
            LET g == getnum(value, fixed)
            IN  IF ~g.ok \/ g.n < lo \/ g.n > hi THEN bad
                ELSE [ok |-> TRUE, rest |-> g.rest, p |-> [p EXCEPT ![field] = g.n]]
        name(tab, field) ==
            LET l == lookup(tab, value)
            IN  IF ~l.ok THEN bad
                ELSE [ok |-> TRUE, rest |-> l.rest,
                      p |-> IF field = "" THEN p ELSE [p EXCEPT ![field] = l.i + 1]]
        half(pm, am) ==
            IF Len(value) < 2 \/ SubSeq(value, 1, 2) \notin {pm, am} THEN bad
            ELSE [ok |-> TRUE, rest |-> From(value, 2),
                  p |-> IF SubSeq(value, 1, 2) = pm THEN [p EXCEPT !.pmSet = TRUE]
                        ELSE [p EXCEPT !.amSet = TRUE]]
    IN  CASE std = "stdYear" ->
               IF Len(value) < 2 \/ ~atoi(SubSeq(value, 1, 2)).ok THEN bad
               ELSE LET y == atoi(SubSeq(value, 1, 2)).n
                    IN  [ok |-> TRUE, rest |-> From(value, 2),
                         p |-> [p EXCEPT !.year = IF y >= 69 THEN y + 1900
                                                  ELSE y + 2000]]
          [] std = "stdLongYear" ->
               IF Len(value) < 4 \/ ~isDigit(value, 0) THEN bad
               ELSE IF ~atoi(SubSeq(value, 1, 4)).ok THEN bad
               ELSE [ok |-> TRUE, rest |-> From(value, 4),
                     p |-> [p EXCEPT !.year = atoi(SubSeq(value, 1, 4)).n]]
          [] std = "stdMonth"       -> name(shortMonthNames, "month")
          [] std = "stdLongMonth"   -> name(longMonthNames, "month")
          [] std = "stdNumMonth"    -> num(FALSE, "month", 1, 12)
          [] std = "stdZeroMonth"   -> num(TRUE, "month", 1, 12)
          \* the day of the week is looked up and dropped
          [] std = "stdWeekDay"     -> name(shortDayNames, "")
          [] std = "stdLongWeekDay" -> name(longDayNames, "")
          \* any day of one or two digits; checked at the end
          [] std = "stdDay"     -> num(FALSE, "day", 0, 99)
          [] std = "stdZeroDay" -> num(TRUE, "day", 0, 99)
          [] std = "stdUnderDay" ->
               LET v == IF value # <<>> /\ value[1] = " " THEN Tail(value) ELSE value
                   g == getnum(v, FALSE)
               IN  IF ~g.ok THEN bad
                   ELSE [ok |-> TRUE, rest |-> g.rest, p |-> [p EXCEPT !.day = g.n]]
          [] std \in {"stdUnderYearDay", "stdZeroYearDay"} ->
               LET v1 == IF std = "stdUnderYearDay" /\ value # <<>> /\ value[1] = " "
                         THEN Tail(value) ELSE value
                   v2 == IF std = "stdUnderYearDay" /\ v1 # <<>> /\ v1[1] = " "
                         THEN Tail(v1) ELSE v1
                   g  == getnum3(v2, std = "stdZeroYearDay")
               IN  IF ~g.ok THEN bad
                   ELSE [ok |-> TRUE, rest |-> g.rest, p |-> [p EXCEPT !.yday = g.n]]
          [] std = "stdHour"       -> num(FALSE, "hour", 0, 23)
          [] std = "stdHour12"     -> num(FALSE, "hour", 0, 12)
          [] std = "stdZeroHour12" -> num(TRUE, "hour", 0, 12)
          [] std = "stdMinute"     -> num(FALSE, "min", 0, 59)
          [] std = "stdZeroMinute" -> num(TRUE, "min", 0, 59)
          [] std \in {"stdSecond", "stdZeroSecond"} ->
               LET s == num(std = "stdZeroSecond", "sec", 0, 59)
                   v == s.rest
               IN  IF ~s.ok THEN bad
                   \* a fraction of a second in the value, none in the layout
                   ELSE IF /\ Len(v) >= 2 /\ commaOrPeriod(v[1]) /\ isDigit(v, 1)
                           /\ ~fracNext
                   THEN LET n  == 1 + leadingDigits(Tail(v))
                            ns == parseNanoseconds(v, n)
                        IN  IF ~ns.ok THEN bad
                            ELSE [ok |-> TRUE, rest |-> From(v, n),
                                  p |-> [s.p EXCEPT !.nsec = ns.ns]]
                   ELSE s
          [] std = "stdPM" -> half(<<"P", "M">>, <<"A", "M">>)
          [] std = "stdpm" -> half(<<"p", "m">>, <<"a", "m">>)
          [] std \in stdISO8601 \cup stdNum -> parseZone(std, value, p)
          [] std = "stdTZ" ->
               IF HasPrefix(value, <<"U", "T", "C">>)
               THEN [ok |-> TRUE, rest |-> From(value, 3), p |-> [p EXCEPT !.z = "UTC"]]
               ELSE LET n == parseTimeZone(value)
                    IN  IF ~n.ok THEN bad
                        ELSE [ok |-> TRUE, rest |-> From(value, n.length),
                              p |-> [p EXCEPT !.zoneName = SubSeq(value, 1, n.length)]]
          \* ".000": as many digits as the layout has
          [] std = "stdFracSecond0" ->
               IF Len(value) < 1 + c.digits THEN bad
               ELSE LET ns == parseNanoseconds(value, 1 + c.digits)
                    IN  IF ~ns.ok THEN bad
                        ELSE [ok |-> TRUE, rest |-> From(value, 1 + c.digits),
                              p |-> [p EXCEPT !.nsec = ns.ns]]
          \* ".999": the fraction may be left out, and may have more digits
          [] std = "stdFracSecond9" ->
               IF Len(value) < 2 \/ ~commaOrPeriod(value[1]) \/ ~isDigit(value, 1)
               THEN [ok |-> TRUE, rest |-> value, p |-> p]
               ELSE LET n  == 1 + leadingDigits(Tail(value))
                        ns == parseNanoseconds(value, n)
                    IN  IF ~ns.ok THEN bad
                        ELSE [ok |-> TRUE, rest |-> From(value, n),
                              p |-> [p EXCEPT !.nsec = ns.ns]]

\* time's daysBefore[m]: the days of a year that is not a leap year before
\* the month m + 1
daysBefore(m) == daysBeforeMonth(m + 1, 1)

\* Time.setLoc(FixedZone(name, offset)) on the time Date(year, month, day,
\* hour, min, sec, nsec, UTC): the instant stays, so the date and the clock
\* are those UTC shows, moved by the offset, less than a day either way
inFixedZone(year, month, day, hour, min, sec, nsec, offset, zone) ==
    LET total == (hour * 60 + min) * 60 + sec + offset
        carry == total \div 86400
        clock == total % 86400
        date  == IF carry = 0 THEN <<year, month, day>>
                 ELSE IF carry < 0
                 THEN IF day > 1 THEN <<year, month, day - 1>>
                      ELSE IF month > 1
                      THEN <<year, month - 1, daysIn(month - 1, year)>>
                      ELSE <<year - 1, 12, 31>>
                 ELSE IF day < daysIn(month, year) THEN <<year, month, day + 1>>
                 ELSE IF month < 12 THEN <<year, month + 1, 1>>
                 ELSE <<year + 1, 1, 1>>
    IN  DateIn(date[1], date[2], date[3], clock \div 3600, (clock % 3600) \div 60,
               clock % 60, nsec, offset, zone)

\* the end of time.Parse, the layout being read: the hour of the afternoon,
\* the month and the day from the day of the year or their defaults, the
\* check of the day, and the zone
parseEnd(p) ==
    LET hour == IF p.pmSet /\ p.hour < 12 THEN p.hour + 12
                ELSE IF p.amSet /\ p.hour = 12 THEN 0 ELSE p.hour
        leapDay == isLeap(p.year) /\ p.yday = 31 + 29
        yday == IF isLeap(p.year) /\ p.yday > 31 + 29 THEN p.yday - 1 ELSE p.yday
        m0   == ((yday - 1) \div 31) + 1
        m    == IF leapDay THEN 2 ELSE IF daysBefore(m0) < yday THEN m0 + 1 ELSE m0
        d    == IF leapDay THEN 29 ELSE yday - daysBefore(m - 1)
        month == IF p.yday >= 0 THEN m ELSE IF p.month < 0 THEN 1 ELSE p.month
        day   == IF p.yday >= 0 THEN d ELSE IF p.day < 0 THEN 1 ELSE p.day
        at(offset, zone) ==
            Parsed(DateIn(p.year, month, day, hour, p.min, p.sec, p.nsec, offset, zone))
    IN  IF p.yday >= 0 /\ ~leapDay /\ (yday < 1 \/ yday > 365)
        THEN ParseFailure("time.Parse")
        ELSE IF p.yday >= 0 /\ p.month >= 0 /\ p.month # m
        THEN ParseFailure("time.Parse")
        ELSE IF p.yday >= 0 /\ p.day >= 0 /\ p.day # d
        THEN ParseFailure("time.Parse")
        ELSE IF day < 1 \/ day > daysIn(month, p.year)
        THEN ParseFailure("time.Parse")
        ELSE IF p.z = "UTC" THEN at(0, <<"U", "T", "C">>)
        ELSE IF p.zoneOffset # -1
        \* the offset is taken off the time built in UTC and the zone set: the
        \* zone of the process when it has this offset, a zone made up for the
        \* offset otherwise; both show the fields as read
        THEN IF /\ LocalZone.offset = p.zoneOffset
                /\ (p.zoneName = <<>> \/ p.zoneName = LocalZone.zone)
             THEN at(LocalZone.offset, LocalZone.zone)
             ELSE at(p.zoneOffset, p.zoneName)
        ELSE IF p.zoneName # <<>>
        \* an abbreviation the zone of the process does not have: the time
        \* is built in UTC from the fields read and set in a zone made up
        \* with that name, at offset 0 or at the hours of "GMT+h", without
        \* the offset being taken off first: the clock moves by the offset
        THEN IF Len(p.zoneName) > 3 /\ HasPrefix(p.zoneName, <<"G", "M", "T">>)
             THEN Parsed(inFixedZone(p.year, month, day, hour, p.min, p.sec, p.nsec,
                                     atoi(From(p.zoneName, 3)).n * 3600, p.zoneName))
             ELSE at(0, p.zoneName)
        ELSE at(0, <<"U", "T", "C">>)

RECURSIVE parseLoop(_, _, _)
\* the loop of time.Parse over the elements of the layout: c is the element
\* the layout starts with and the text around it
parseLoop(c, value, p) ==
    LET sk == skip(value, c.prefix)
    IN  IF ~sk.ok THEN ParseFailure("time.Parse")
        ELSE IF c.std = ""
        THEN IF sk.rest # <<>> THEN ParseFailure("time.Parse") ELSE parseEnd(p)
        ELSE CHOOSE result \in
                 { LET e == parseStd(c, sk.rest, p,
                                     next.std \in {"stdFracSecond0", "stdFracSecond9"})
                   IN  IF ~e.ok THEN ParseFailure("time.Parse")
                       ELSE parseLoop(next, e.rest, e.p) :
                   next \in {nextStdChunk(c.suffix)} } : TRUE

\* time.Parse(layout, s)
ParseTime(layout, s) ==
    CHOOSE result \in
        { parseLoop(c, s, parseStart) : c \in {nextStdChunk(layout)} } : TRUE

-----------------------------------------------------------------------------
(* record.go: the typed accessors.  A result is [val, err].                 *)

Typed(v) == [val |-> v, err |-> NoErr]

TypedFail(zero, e) == [val |-> zero, err |-> e]

\* time.Unix(0, 0), the Time GetTime returns with an error: the epoch in the
\* zone of the process
UnixZero == DateIn(1970, 1, 1, 0, 0, 0, 0, LocalZone.offset, LocalZone.zone)

\* a faulty GetBool: the strings strconv.ParseBool accepts are booleans
GetBoolParseBool(r, key) ==
    LET g == Get(r, key)
        true  == {<<"1">>, <<"t">>, <<"T">>, <<"t", "r", "u", "e">>,
                  <<"T", "R", "U", "E">>, <<"T", "r", "u", "e">>}
        false == {<<"0">>, <<"f">>, <<"F">>, <<"f", "a", "l", "s", "e">>,
                  <<"F", "A", "L", "S", "E">>, <<"F", "a", "l", "s", "e">>}
    IN  IF g.err # NoErr THEN TypedFail(FALSE, g.err)
        ELSE IF g.s \notin true \cup false
        THEN TypedFail(FALSE, ErrWrongType(key, ParseFailure("strconv.ParseBool")))
        ELSE Typed(g.s \in true)

\* Record.GetBool(key)
GetBool(r, key) ==
    LET g == Get(r, key)
    IN  IF g.err # NoErr THEN TypedFail(FALSE, g.err)
        ELSE IF g.s # <<"t", "r", "u", "e">> /\ g.s # <<"f", "a", "l", "s", "e">>
        THEN TypedFail(FALSE, ErrWrongType(key, [kind |-> "not a boolean", s |-> g.s]))
        ELSE Typed(g.s = <<"t", "r", "u", "e">>)

\* Record.GetInt64(key)
GetInt64(r, key) ==
    LET g == Get(r, key)
    IN  IF g.err # NoErr THEN TypedFail(0, g.err)
        ELSE IF ~ParseInt(g.s).ok
        THEN TypedFail(0, ErrWrongType(key, ParseInt(g.s).val))
        ELSE Typed(ParseInt(g.s).val)

\* Record.GetInt(key): int(i) of GetInt64's result
GetInt(r, key) ==
    LET i == GetInt64(r, key)
    IN  IF i.err # NoErr THEN TypedFail(0, i.err) ELSE Typed(i.val)

\* Record.GetFloat64(key)
GetFloat64(r, key) ==
    LET g == Get(r, key)
    IN  IF g.err # NoErr THEN TypedFail(0, g.err)
        ELSE IF ~ParseFloat(g.s).ok
        THEN TypedFail(0, ErrWrongType(key, ParseFloat(g.s).val))
        ELSE Typed(ParseFloat(g.s).val)

\* Record.GetTime(layout, key)
GetTime(r, layout, key) ==
    LET g == Get(r, key)
    IN  IF g.err # NoErr THEN TypedFail(UnixZero, g.err)
        ELSE CHOOSE result \in
                 { IF ~t.ok THEN TypedFail(UnixZero, ErrWrongType(key, t.val))
                   ELSE Typed(t.val) :
                   t \in {ParseTime(layout, g.s)} } : TRUE

\* Record.GetDuration(key)
GetDuration(r, key) ==
    LET g == Get(r, key)
    IN  IF g.err # NoErr THEN TypedFail(0, g.err)
        ELSE IF ~ParseDuration(g.s).ok
        THEN TypedFail(0, ErrWrongType(key, ParseDuration(g.s).val))
        ELSE Typed(ParseDuration(g.s).val)

-----------------------------------------------------------------------------
(* The duplicate check of NewReader and NewWriter *)

\* a faulty duplicate check: it reports the first name that occurs again
\* later in the header, not the first name that repeats an earlier one
firstDuplicateOfFirstOccurrence(header, seen) ==
    LET twice == {i \in 1..Len(header) :
                     \E j \in (i + 1)..Len(header) : header[j] = header[i]}
    IN  IF twice = {} THEN NoErr ELSE ErrDuplicateKey(header[SetMin(twice)])

RECURSIVE firstDuplicate(_, _)
\* the loop `for _, h := range header` over the set of names seen so far:
\* the error it returns
firstDuplicate(header, seen) ==
    IF header = <<>> THEN NoErr
    ELSE IF Head(header) \in seen THEN ErrDuplicateKey(Head(header))
    ELSE firstDuplicate(Tail(header), seen \cup {Head(header)})

-----------------------------------------------------------------------------
(* encoding/csv.Reader, as reader.go drives it.  The source is the sequence *)
(* of outcomes its tokenizer yields: a row, or a row read so far with the   *)
(* error that cut it (a malformed row, a failure of the byte source).      *)

\* csv.NewReader(r): FieldsPerRecord is 0 until it is set
CsvReader(items) == [items |-> items, FieldsPerRecord |-> 0, reads |-> 0]

\* csv.Reader.Read(): the next record with its error, and the reader after it.
\* The field count is checked against FieldsPerRecord when that is positive
\* and the row had no error of its own; a FieldsPerRecord of 0 is set from the
\* row.
csvRead(cr) ==
    IF cr.items = <<>>
    THEN [record |-> <<>>, err |-> EOF,
          cr |-> [cr EXCEPT !.reads = @ + 1]]
    ELSE LET it == Head(cr.items)
             n  == Len(it.record)
         IN  [record |-> it.record,
              err |-> IF cr.FieldsPerRecord > 0 /\ n # cr.FieldsPerRecord
                         /\ it.err = NoErr
                      THEN ErrFieldCount ELSE it.err,
              cr |-> [items |-> Tail(cr.items),
                      FieldsPerRecord |-> IF cr.FieldsPerRecord = 0 THEN n
                                          ELSE cr.FieldsPerRecord,
                      reads |-> cr.reads + 1]]

-----------------------------------------------------------------------------
(* The tokenizer of encoding/csv.Reader (Comma ',', no Comment, no          *)
(* LazyQuotes, no TrimLeadingSpace): from the text of a source to the       *)
(* outcomes of its Read calls.  A local variable of the code (i, line) is   *)
(* bound once, as the one element of a set.                                *)

\* the position of the first c in s, 0 when s holds none
IndexOf(s, c) ==
    IF \E i \in 1..Len(s) : s[i] = c
    THEN SetMin({i \in 1..Len(s) : s[i] = c}) ELSE 0

\* csv's lengthNL(line)
lengthNL(line) == IF line # <<>> /\ line[Len(line)] = "\n" THEN 1 ELSE 0

\* csv.Reader.readLine(): the next line with its line feed, a carriage return
\* before the end of the text dropped and a final "\r\n" turned into "\n"
readLine(text) ==
    LET i    == IndexOf(text, "\n")
        raw  == IF i > 0 THEN SubSeq(text, 1, i) ELSE text
        a    == IF i = 0 /\ raw # <<>> /\ raw[Len(raw)] = "\r"
                THEN SubSeq(raw, 1, Len(raw) - 1) ELSE raw
        n    == Len(a)
    IN  [line |-> IF n >= 2 /\ a[n - 1] = "\r" /\ a[n] = "\n"
                  THEN SubSeq(a, 1, n - 2) \o <<"\n">> ELSE a,
         rest |-> IF i > 0 THEN SubSeq(text, i + 1, Len(text)) ELSE <<>>,
         err  |-> IF text = <<>> THEN EOF ELSE NoErr]

RECURSIVE quotedField(_, _, _)
\* the inner loop of readRecord for a quoted field, after its opening quote:
\* buf is the field read so far, line what is left of the line, rest the text
\* after the line
quotedField(line, rest, buf) ==
    CHOOSE result \in
      { IF i > 0
        THEN IF i < Len(line) /\ line[i + 1] = "\""
             THEN quotedField(SubSeq(line, i + 2, Len(line)), rest,
                              buf \o SubSeq(line, 1, i))
             ELSE IF i < Len(line) /\ line[i + 1] = ","
             THEN [err |-> NoErr, field |-> buf \o SubSeq(line, 1, i - 1),
                   more |-> TRUE, line |-> SubSeq(line, i + 2, Len(line)),
                   rest |-> rest]
             ELSE IF lengthNL(SubSeq(line, i + 1, Len(line))) = Len(line) - i
             THEN [err |-> NoErr, field |-> buf \o SubSeq(line, 1, i - 1),
                   more |-> FALSE, line |-> <<>>, rest |-> rest]
             ELSE [err |-> ErrParse("ErrQuote"), field |-> buf \o SubSeq(line, 1, i - 1),
                   more |-> FALSE, line |-> <<>>, rest |-> rest]
        ELSE IF Len(line) > 0
        THEN quotedField(next.line, next.rest, buf \o line)
        ELSE [err |-> ErrParse("ErrQuote"), field |-> buf, more |-> FALSE,
              line |-> <<>>, rest |-> rest]
        : i \in {IndexOf(line, "\"")}, next \in {readLine(rest)} } : TRUE

RECURSIVE parseField(_, _, _)
\* the loop parseField of readRecord: the fields of one record, the error that
\* cut it, and the text after it
parseField(line, rest, fields) ==
    IF line = <<>> \/ line[1] # "\""
    THEN CHOOSE result \in
           { IF IndexOf(SubSeq(line, 1, IF i > 0 THEN i - 1 ELSE Len(line)), "\"") > 0
             THEN [record |-> fields, err |-> ErrParse("ErrBareQuote"), rest |-> rest]
             ELSE IF i > 0
             THEN parseField(SubSeq(line, i + 1, Len(line)), rest,
                             Append(fields, SubSeq(line, 1, i - 1)))
             ELSE [record |-> Append(fields, SubSeq(line, 1, Len(line) - lengthNL(line))),
                   err |-> NoErr, rest |-> rest]
             : i \in {IndexOf(line, ",")} } : TRUE
    ELSE CHOOSE result \in
           { IF q.err # NoErr
             THEN [record |-> fields, err |-> q.err, rest |-> q.rest]
             ELSE IF q.more
             THEN parseField(q.line, q.rest, Append(fields, q.field))
             ELSE [record |-> Append(fields, q.field), err |-> NoErr, rest |-> q.rest]
             : q \in {quotedField(Tail(line), rest, <<>>)} } : TRUE

RECURSIVE readRecord(_)
\* csv.Reader.readRecord before the field count check: empty lines are
\* skipped, the end of the text is io.EOF
readRecord(text) ==
    CHOOSE result \in
      { IF l.err = EOF THEN [record |-> <<>>, err |-> EOF, rest |-> <<>>]
        ELSE IF Len(l.line) = lengthNL(l.line) THEN readRecord(l.rest)
        ELSE parseField(l.line, l.rest, <<>>)
        : l \in {readLine(text)} } : TRUE

RECURSIVE csvItems(_)
\* what the Read calls of a csv.Reader on the text find, one after the other,
\* before io.EOF
csvItems(text) ==
    CHOOSE result \in
      { IF x.err = EOF THEN <<>>
        ELSE <<[record |-> x.record, err |-> x.err]>> \o csvItems(x.rest)
        : x \in {readRecord(text)} } : TRUE

-----------------------------------------------------------------------------
(* reader.go *)

\* a faulty NewReader: it reads the first row of the source even when a
\* header is given
NewReaderAlwaysReads(cr, header) ==
    LET h == csvRead(cr)
    IN  IF h.err # NoErr
        THEN [reader |-> Nil, err |-> h.err, cr |-> h.cr]
        ELSE LET hh == IF Len(header) = 0 THEN h.record ELSE header
             IN  IF firstDuplicate(hh, {}) # NoErr
                 THEN [reader |-> Nil, err |-> firstDuplicate(hh, {}), cr |-> h.cr]
                 ELSE [reader |-> [header |-> hh], err |-> NoErr, cr |-> h.cr]

\* NewReader(r, header...): the *Reader (its header), the error, and the
\* csv.Reader after the call
NewReader(cr, header) ==
    LET h == IF Len(header) = 0 THEN csvRead(cr)
             ELSE [record |-> header, err |-> NoErr, cr |-> cr]
    IN  IF h.err # NoErr
        THEN [reader |-> Nil, err |-> h.err, cr |-> h.cr]
        ELSE IF firstDuplicate(h.record, {}) # NoErr
        THEN [reader |-> Nil, err |-> firstDuplicate(h.record, {}), cr |-> h.cr]
        ELSE [reader |-> [header |-> h.record], err |-> NoErr, cr |-> h.cr]

\* a faulty map of a row: every name gets the first field of the row
rowFieldsAllFirst(header, record) ==
    [k \in {header[i] : i \in 1..Len(record)} |->
        Field(StrV(record[1]), NoFormatter)]

\* the map built by `for i, v := range record { fields[r.header[i]] = v }`
\* for a record no longer than the header: a later position overwrites an
\* earlier one of the same name
rowFields(header, record) ==
    [k \in {header[i] : i \in 1..Len(record)} |->
        LET last == CHOOSE i \in 1..Len(record) :
                        /\ header[i] = k
                        /\ \A j \in 1..Len(record) : header[j] = k => j <= i
        IN  Field(StrV(record[last]), NoFormatter)]

\* Reader.Read() of reader.go: the record is built whatever the error is, and
\* header[i] is out of range for a row longer than the header
Read(r, cr) ==
    LET x == csvRead([cr EXCEPT !.FieldsPerRecord = Len(r.header)])
    IN  IF Len(x.record) > Len(r.header)
        THEN [record |-> Nil, err |-> Panic("index out of range"), cr |-> x.cr]
        ELSE [record |-> rowFields(r.header, x.record), err |-> x.err, cr |-> x.cr]

\* Reader.Read() of record_test.go, the Read that ReadAll calls: an error
\* returns no record
ReadOrNil(r, cr) ==
    LET x == csvRead([cr EXCEPT !.FieldsPerRecord = Len(r.header)])
    IN  IF x.err # NoErr
        THEN [record |-> Nil, err |-> x.err, cr |-> x.cr]
        ELSE [record |-> rowFields(r.header, x.record), err |-> NoErr, cr |-> x.cr]

\* the repository holds two Readers with the same NewReader: the one of
\* reader.go, and the one kept in record_test.go, which has ReadAll
ReaderFiles == {"reader.go", "record_test.go"}

\* the *Reader NewReader returned, as the Reader of one of the two files
ReaderOf(file, r) ==
    IF r = Nil THEN Nil ELSE [header |-> r.header, file |-> file]

\* reader.Read(), by the Read of the file of the Reader
ReadOf(r, cr) ==
    IF r.file = "reader.go" THEN Read(r, cr) ELSE ReadOrNil(r, cr)

\* a faulty ReadAll loop: on an error it returns the records accumulated so far
readAllNextKeepsPartial(records, record, err) ==
    IF err = EOF THEN [return |-> TRUE, records |-> records, err |-> NoErr]
    ELSE IF err # NoErr THEN [return |-> TRUE, records |-> records, err |-> err]
    ELSE [return |-> FALSE, records |-> Append(records, record), err |-> NoErr]

\* the body of the loop of ReadAll after `record, err := r.Read()`, with the
\* records accumulated so far: it returns them and nil at io.EOF, nil and
\* the error at any other error, and appends the record otherwise
readAllNext(records, record, err) ==
    IF err = EOF THEN [return |-> TRUE, records |-> records, err |-> NoErr]
    ELSE IF err # NoErr THEN [return |-> TRUE, records |-> <<>>, err |-> err]
    ELSE [return |-> FALSE, records |-> Append(records, record), err |-> NoErr]

-----------------------------------------------------------------------------
(* encoding/csv.Writer, as writer.go drives it: Comma is ',', UseCRLF false. *)
(* Its bufio buffer takes a row without error unless an earlier flush has   *)
(* failed; the error of a failed flush is kept and returned ever after.     *)

\* csv.NewWriter(w)
CsvWriter == [buf |-> <<>>, err |-> NoErr]

\* unicode.IsSpace of a character of the model
IsSpace(c) == c \in {" ", "\t", "\n", "\r"}

\* csv.Writer.fieldNeedsQuotes(field)
fieldNeedsQuotes(field) ==
    IF field = <<>> THEN FALSE
    ELSE IF field = <<"\\", ".">> THEN TRUE
    ELSE IF \E i \in 1..Len(field) : field[i] \in {"\n", "\r", "\"", ","} THEN TRUE
    ELSE IsSpace(field[1])

RECURSIVE quoteBody(_)
\* the characters csv.Writer.Write puts between the quotes of a quoted field:
\* a quote is doubled, a carriage return and a line feed are kept
quoteBody(field) ==
    IF field = <<>> THEN <<>>
    ELSE (IF Head(field) = "\"" THEN <<"\"", "\"">> ELSE <<Head(field)>>)
         \o quoteBody(Tail(field))

\* one field as csv.Writer.Write writes it
csvField(field) ==
    IF fieldNeedsQuotes(field) THEN <<"\"">> \o quoteBody(field) \o <<"\"">>
    ELSE field

RECURSIVE csvLine(_)
\* the text of one record: the fields separated by commas, then a line feed
csvLine(record) ==
    IF record = <<>> THEN <<"\n">>
    ELSE IF Len(record) = 1 THEN csvField(record[1]) \o <<"\n">>
    ELSE csvField(record[1]) \o <<",">> \o csvLine(Tail(record))

\* csv.Writer.Write(record): the error returned and the writer after the call
csvWrite(c, record) ==
    IF c.err # NoErr THEN [err |-> c.err, cw |-> c]
    ELSE [err |-> NoErr, cw |-> [c EXCEPT !.buf = @ \o csvLine(record)]]

\* csv.Writer.Flush(): the buffered text goes to the destination, or the
\* destination's error is kept; nothing is written for an empty buffer
csvFlush(c, dest, broken) ==
    IF c.err # NoErr \/ c.buf = <<>> THEN [cw |-> c, out |-> dest]
    ELSE IF broken THEN [cw |-> [c EXCEPT !.err = ErrIO], out |-> dest]
    ELSE [cw |-> [c EXCEPT !.buf = <<>>], out |-> dest \o c.buf]

\* csv.Writer.Error()
csvError(c) == c.err

-----------------------------------------------------------------------------
(* writer.go *)

\* defaultEmptyValue
defaultEmptyValue == <<>>

\* NewWriter(w, header...): the *Writer and the error
NewWriter(header) ==
    IF firstDuplicate(header, {}) # NoErr
    THEN [writer |-> Nil, err |-> firstDuplicate(header, {})]
    ELSE [writer |-> [header |-> header, defaults |-> EmptyMap,
                      formatters |-> EmptyMap, EmptyValue |-> defaultEmptyValue],
          err |-> NoErr]

\* Writer.SetDefault(key, value, formatter...)
SetDefault(wr, key, value, fmts) ==
    [wr EXCEPT !.defaults = MapPut(@, key, Field(value, variadicFormatter(fmts)))]

\* a faulty SetFormatter: the entry becomes what the formatters make, nil
\* when there is none
SetFormatterClears(wr, key, fmts) ==
    [wr EXCEPT !.formatters = MapPut(@, key, variadicFormatter(fmts))]

\* Writer.SetFormatter(key, formatter...)
SetFormatter(wr, key, fmts) ==
    IF Len(fmts) = 0 THEN wr
    ELSE IF Len(fmts) = 1
    THEN [wr EXCEPT !.formatters = MapPut(@, key, fmts[1])]
    ELSE [wr EXCEPT !.formatters = MapPut(@, key, chainFormatter(fmts))]

\* a faulty getFormattedValue: a Record entry without formatter borrows the
\* formatter of the registered default
getFormattedValueBorrowsDefault(wr, record, column) ==
    LET src0 == IF column \in DOMAIN record THEN record[column]
                ELSE IF column \in DOMAIN wr.defaults THEN wr.defaults[column]
                ELSE Field(StrV(wr.EmptyValue), NoFormatter)
        f0   == IF src0.formatter = NoFormatter /\ column \in DOMAIN wr.defaults
                THEN wr.defaults[column].formatter ELSE src0.formatter
        f1   == IF f0 = NoFormatter THEN DefaultFormatter ELSE f0
        f    == IF column \in DOMAIN wr.formatters
                   /\ wr.formatters[column] # NoFormatter
                THEN chainFormatter(<<f1, wr.formatters[column]>>)
                ELSE f1
    IN  Format(f, src0.value)

\* a faulty getFormattedValue: the column-level formatter runs first, the
\* value-level formatter last
getFormattedValueColumnFirst(wr, record, column) ==
    LET src0 == IF column \in DOMAIN record THEN record[column]
                ELSE IF column \in DOMAIN wr.defaults THEN wr.defaults[column]
                ELSE Field(StrV(wr.EmptyValue), NoFormatter)
        f1   == IF src0.formatter = NoFormatter THEN DefaultFormatter
                ELSE src0.formatter
        f    == IF column \in DOMAIN wr.formatters
                   /\ wr.formatters[column] # NoFormatter
                THEN chainFormatter(<<wr.formatters[column], f1>>)
                ELSE f1
    IN  Format(f, src0.value)

\* Writer.getFormattedValue(record, column)
getFormattedValue(wr, record, column) ==
    LET src0 == IF column \in DOMAIN record THEN record[column]
                ELSE IF column \in DOMAIN wr.defaults THEN wr.defaults[column]
                ELSE Field(StrV(wr.EmptyValue), NoFormatter)
        f1   == IF src0.formatter = NoFormatter THEN DefaultFormatter
                ELSE src0.formatter
        f    == IF column \in DOMAIN wr.formatters
                   /\ wr.formatters[column] # NoFormatter
                THEN chainFormatter(<<f1, wr.formatters[column]>>)
                ELSE f1
    IN  Format(f, src0.value)

RECURSIVE formatColumnsReversed(_, _, _, _)
\* a faulty loop of Write: each formatted value is put in front of the row
formatColumnsReversed(wr, record, columns, row) ==
    IF columns = <<>>
    THEN [row |-> row, err |-> NoErr, resolved |-> Len(wr.header)]
    ELSE LET x == getFormattedValue(wr, record, Head(columns))
         IN  IF x.err # NoErr
             THEN [row |-> <<>>, err |-> x.err,
                   resolved |-> Len(wr.header) - Len(Tail(columns))]
             ELSE formatColumnsReversed(wr, record, Tail(columns), <<x.s>> \o row)

RECURSIVE formatColumnsKeepsGoing(_, _, _, _)
\* a faulty loop of Write: after a failure the columns that follow are
\* resolved all the same, and the first error is returned at the end
formatColumnsKeepsGoing(wr, record, columns, row) ==
    IF columns = <<>>
    THEN [row |-> row, err |-> NoErr, resolved |-> Len(wr.header)]
    ELSE LET x == getFormattedValue(wr, record, Head(columns))
         IN  IF x.err # NoErr
             THEN [row |-> <<>>, err |-> x.err, resolved |-> Len(wr.header)]
             ELSE formatColumnsKeepsGoing(wr, record, Tail(columns), Append(row, x.s))

RECURSIVE formatColumns(_, _, _, _)
\* the loop of Write over the header: the row built so far is extended column
\* by column, and the first error ends the loop; resolved is the number of
\* columns getFormattedValue was called for
formatColumns(wr, record, columns, row) ==
    IF columns = <<>>
    THEN [row |-> row, err |-> NoErr, resolved |-> Len(wr.header)]
    ELSE LET x == getFormattedValue(wr, record, Head(columns))
         IN  IF x.err # NoErr
             THEN [row |-> <<>>, err |-> x.err,
                   resolved |-> Len(wr.header) - Len(Tail(columns))]
             ELSE formatColumns(wr, record, Tail(columns), Append(row, x.s))

\* a faulty Write: for an empty header the row is one field, EmptyValue
WriteEmptyValueRow(wr, c, dest, broken, record) ==
    LET x == IF wr.header = <<>>
             THEN [row |-> <<wr.EmptyValue>>, err |-> NoErr, resolved |-> 0]
             ELSE formatColumns(wr, record, wr.header, <<>>)
    IN  IF x.err # NoErr
        THEN [err |-> x.err, cw |-> c, out |-> dest, rows |-> <<>>,
              resolved |-> x.resolved]
        ELSE LET wrote == csvWrite(c, x.row)
             IN  IF wrote.err # NoErr
                 THEN [err |-> Errorf("cannot write record", wrote.err),
                       cw |-> wrote.cw, out |-> dest, rows |-> <<>>,
                       resolved |-> x.resolved]
                 ELSE LET fl == csvFlush(wrote.cw, dest, broken)
                      IN  [err |-> IF csvError(fl.cw) # NoErr
                                   THEN Errorf("cannot write record", csvError(fl.cw))
                                   ELSE NoErr,
                           cw |-> fl.cw, out |-> fl.out, rows |-> <<x.row>>,
                           resolved |-> x.resolved]

\* Writer.Write(r): the error returned, the csv.Writer and the destination
\* after the call, the rows csv.Writer.Write accepted during the call, and
\* the number of columns that were resolved
Write(wr, c, dest, broken, record) ==
    LET x == formatColumns(wr, record, wr.header, <<>>)
    IN  IF x.err # NoErr
        THEN [err |-> x.err, cw |-> c, out |-> dest, rows |-> <<>>,
              resolved |-> x.resolved]
        ELSE LET wrote == csvWrite(c, x.row)
             IN  IF wrote.err # NoErr
                 THEN [err |-> Errorf("cannot write record", wrote.err),
                       cw |-> wrote.cw, out |-> dest, rows |-> <<>>,
                       resolved |-> x.resolved]
                 ELSE LET fl == csvFlush(wrote.cw, dest, broken)
                      IN  [err |-> IF csvError(fl.cw) # NoErr
                                   THEN Errorf("cannot write record", csvError(fl.cw))
                                   ELSE NoErr,
                           cw |-> fl.cw, out |-> fl.out, rows |-> <<x.row>>,
                           resolved |-> x.resolved]

\* a faulty WriteHeader: the header is written whatever its length, so an
\* empty header gives an empty line
WriteHeaderAlwaysWrites(wr, c, dest, broken) ==
    LET wrote == csvWrite(c, wr.header)
    IN  IF wrote.err # NoErr
        THEN [err |-> Errorf("cannot write header line", wrote.err),
              cw |-> wrote.cw, out |-> dest, rows |-> <<>>]
        ELSE LET fl == csvFlush(wrote.cw, dest, broken)
             IN  [err |-> IF csvError(fl.cw) # NoErr
                          THEN Errorf("cannot write header line", csvError(fl.cw))
                          ELSE NoErr,
                  cw |-> fl.cw, out |-> fl.out, rows |-> <<wr.header>>]

\* Writer.WriteHeader()
WriteHeader(wr, c, dest, broken) ==
    LET wrote == IF Len(wr.header) # 0 THEN csvWrite(c, wr.header)
                 ELSE [err |-> NoErr, cw |-> c]
    IN  IF wrote.err # NoErr
        THEN [err |-> Errorf("cannot write header line", wrote.err),
              cw |-> wrote.cw, out |-> dest, rows |-> <<>>]
        ELSE LET fl == csvFlush(wrote.cw, dest, broken)
             IN  [err |-> IF csvError(fl.cw) # NoErr
                          THEN Errorf("cannot write header line", csvError(fl.cw))
                          ELSE NoErr,
                  cw |-> fl.cw, out |-> fl.out,
                  rows |-> IF Len(wr.header) # 0 THEN <<wr.header>> ELSE <<>>]

-----------------------------------------------------------------------------
(* The inputs of the scenarios *)

\* column names
Keys == {<<"a">>, <<"b">>}

\* a name no header holds
OtherKey == <<"z">>

\* the headers a caller passes: every sequence of names, repeated names and
\* the empty header included
Headers == UNION {[1..n -> Keys] : n \in 0..MaxHeader}

\* the rows a csv source delivers: one field at least, up to one more than
\* the longest header
Rows == UNION {[1..n -> Keys] : n \in 1..(MaxHeader + 1)}

\* what one csv.Reader.Read finds: a row, a malformed row (the fields read so
\* far), or a failure of the byte source (one empty field read so far)
Items ==
    {[record |-> r, err |-> NoErr] : r \in Rows}
    \cup {[record |-> <<<<"a">>>>, err |-> ErrParse("ErrQuote")],
          [record |-> <<<<>>>>, err |-> ErrIO]}

Streams == UNION {[1..n -> Items] : n \in 0..MaxRows}

\* the states of the Writer side while a Reader scenario runs
WriterIdle ==
    /\ w = Nil /\ cw = Nil /\ wErr = NoErr /\ rec = NewRecord /\ setLog = <<>>
    /\ codecRows = <<>> /\ out = <<>> /\ sinkFails = FALSE /\ before = Nil
    /\ calls = 0

\* the states of the Reader side while a Writer scenario runs
ReaderIdle ==
    /\ src = <<>> /\ hdrArg = <<>> /\ input = Nil /\ inputPrev = Nil /\ rd = Nil
    /\ rdErr = NoErr /\ rdRec = Nil /\ got = <<>> /\ all = <<>>

PureIdle == probe = Nil /\ res = Nil

\* no goroutine but the caller's
GoIdle == mutex = 0 /\ threads = <<>> /\ returned = <<>>

-----------------------------------------------------------------------------
(* The Reader scenario: NewReader on a source, then Read and ReadAll calls. *)
(* Read holds r.mutex from its first statement to its return, so a Read     *)
(* call is one step; ReadAll holds no lock of its own, so between two Read  *)
(* calls of its loop another goroutine may make a Read call.                *)

InitReader ==
    /\ pc = "start"
    /\ op = "none"
    /\ src \in Streams
    /\ input = CsvReader(src)
    /\ inputPrev = CsvReader(src)
    /\ hdrArg \in Headers
    /\ rd = Nil /\ rdErr = NoErr /\ rdRec = Nil /\ got = <<>> /\ all = <<>>
    /\ WriterIdle /\ PureIdle /\ GoIdle

\* NewReader(csvReader, hdrArg...) and what it changes, the caller's position
\* apart
NewReaderCall ==
    /\ op' = "NewReader"
    /\ LET x == NewReader(input, hdrArg)
       IN  /\ \E file \in ReaderFiles : rd' = ReaderOf(file, x.reader)
           /\ rdErr' = x.err
           /\ input' = x.cr
           /\ inputPrev' = input
    /\ UNCHANGED <<src, hdrArg, rdRec, got, all>>

\* reader, err := NewReader(csvReader, header...)
CallNewReader ==
    /\ pc = "start"
    /\ NewReaderCall
    /\ pc' = IF rdErr' = NoErr THEN "reading" ELSE "failed"
    /\ UNCHANGED <<writerVars, recordVars, calls, pureVars, goVars>>

\* record, err := reader.Read()
CallRead ==
    /\ op' = "Read"
    /\ pc \in {"reading", "drained"}
    /\ input.reads <= MaxRows + 1
    /\ LET x == ReadOf(rd, input)
       IN  /\ rdRec' = x.record
           /\ rdErr' = x.err
           /\ input' = x.cr
           /\ inputPrev' = input
           /\ got' = IF x.err = NoErr THEN Append(got, x.record) ELSE got
           /\ pc' = IF x.err.kind = "panic" THEN "panicked" ELSE pc
    /\ UNCHANGED <<src, hdrArg, rd, all>>
    /\ UNCHANGED <<writerVars, recordVars, calls, pureVars, goVars>>

\* the Read calls another goroutine makes during one ReadAll call
MaxOtherReads == 1

\* a ReadAll call under way: the records accumulated, the Read calls made
\* on the Reader since the call began, whether the call has returned
ReadAllStart == [records |-> <<>>, trace |-> <<>>, done |-> FALSE]

\* one Read call as the scenario remembers it: who called, which of the
\* rows that remained when ReadAll was called the csv.Reader delivered (one
\* past the last at io.EOF), and the error returned
ReadTraced(by, x) ==
    [by |-> by, row |-> Len(inputPrev.items) - Len(input.items) + 1, err |-> x.err]

\* records, err := reader.ReadAll() is called, on the Reader that has it:
\* nothing is read yet
CallReadAll ==
    /\ pc = "reading"
    /\ rd.file = "record_test.go"
    /\ op' = "ReadAll"
    /\ pc' = "draining"
    /\ res' = ReadAllStart
    /\ inputPrev' = input
    /\ UNCHANGED <<src, hdrArg, input, rd, rdErr, rdRec, got, all>>
    /\ UNCHANGED <<writerVars, recordVars, calls, probe, goVars>>

\* one turn of the loop of ReadAll: `record, err := r.Read()`, from Lock to
\* Unlock, and what the loop does with it
ReadAllRead ==
    /\ pc = "draining"
    /\ \E x \in {ReadOf(rd, input)} :
          \E next \in {readAllNext(res.records, x.record, x.err)} :
             /\ input' = x.cr
             /\ res' = [records |-> next.records,
                        trace |-> Append(res.trace, ReadTraced("ReadAll", x)),
                        done |-> next.return]
             /\ pc' = IF next.return THEN "drained" ELSE pc
             /\ all' = IF next.return THEN next.records ELSE all
             /\ rdErr' = IF next.return THEN next.err ELSE rdErr
    /\ UNCHANGED <<op, src, hdrArg, inputPrev, rd, rdRec, got>>
    /\ UNCHANGED <<writerVars, recordVars, calls, probe, goVars>>

\* the Read calls of the other goroutine since the ReadAll call began
OtherReads == SelectSeq(res.trace, LAMBDA e : e.by = "Read")

\* reader.Read() by another goroutine, between two Read calls of the loop
\* of ReadAll or before the first
OtherRead ==
    /\ pc = "draining"
    /\ Len(OtherReads) < MaxOtherReads
    /\ \E x \in {ReadOf(rd, input)} :
          /\ input' = x.cr
          /\ res' = [res EXCEPT !.trace = Append(@, ReadTraced("Read", x))]
    /\ UNCHANGED <<pc, op, src, hdrArg, inputPrev, rd, rdErr, rdRec, got, all>>
    /\ UNCHANGED <<writerVars, recordVars, calls, probe, goVars>>

NextReader ==
    \/ CallNewReader \/ CallRead \/ CallReadAll \/ ReadAllRead \/ OtherRead

SpecReader == InitReader /\ [][NextReader]_vars

-----------------------------------------------------------------------------
(* The Writer scenario: NewWriter, then SetDefault, SetFormatter, an         *)
(* assignment to EmptyValue, Set calls on the Record, WriteHeader and Write *)
(* in any order; the destination may break at any time.                    *)

\* the values and formatters a caller gives to Record.Set
SetValues == {StrV(<<"x">>), IntV(27)}

SetFormatters == {<<>>, <<StringFormatter(<<"(">>, <<")">>)>>, <<ErrFormatter>>}

\* the value and formatters a caller gives to Writer.SetDefault
DefaultValues == {IntV(18)}

DefaultFormatters == {<<>>, <<StringFormatter(<<"[">>, <<"]">>)>>}

\* the formatters a caller gives to Writer.SetFormatter
ColumnFormatters == {<<>>, <<StringFormatter(<<"<">>, <<">">>)>>, <<ErrFormatter>>}

\* the value a caller assigns to Writer.EmptyValue
OtherEmptyValue == <<"-">>

\* the state a Writer call starts from
Snapshot == [cw |-> cw, out |-> out, rows |-> codecRows, w |-> w, rec |-> rec]

InitWriter ==
    /\ pc = "start"
    /\ op = "none"
    /\ w = Nil /\ cw = CsvWriter /\ wErr = NoErr
    /\ rec = NewRecord /\ setLog = <<>>
    /\ codecRows = <<>> /\ out = <<>> /\ sinkFails = FALSE
    /\ before = Nil /\ calls = 0
    /\ hdrArg \in Headers
    /\ src = <<>> /\ input = Nil /\ inputPrev = Nil /\ rd = Nil
    /\ rdErr = NoErr /\ rdRec = Nil /\ got = <<>> /\ all = <<>>
    /\ PureIdle /\ GoIdle

\* NewWriter(csvWriter, hdrArg...) and what it changes, the caller's position
\* apart
NewWriterCall ==
    /\ op' = "NewWriter"
    /\ LET x == NewWriter(hdrArg)
       IN  /\ w' = x.writer
           /\ wErr' = x.err
    /\ before' = Snapshot
    /\ UNCHANGED <<cw, codecRows, out, sinkFails, calls>>

\* writer, err := NewWriter(csvWriter, header...)
CallNewWriter ==
    /\ pc = "start"
    /\ NewWriterCall
    /\ pc' = IF wErr' = NoErr THEN "writing" ELSE "failed"
    /\ UNCHANGED <<readerVars, recordVars, pureVars, goVars>>

\* writer.SetDefault(key, value, formatter...)
CallSetDefault ==
    /\ pc = "writing" /\ calls < MaxCalls
    /\ op' = "SetDefault"
    /\ \E key \in Keys, v \in DefaultValues, fmts \in DefaultFormatters :
          w' = SetDefault(w, key, v, fmts)
    /\ before' = Snapshot
    /\ calls' = calls + 1
    /\ UNCHANGED <<pc, cw, wErr, codecRows, out, sinkFails>>
    /\ UNCHANGED <<readerVars, recordVars, pureVars, goVars>>

\* writer.SetFormatter(key, formatter...)
CallSetFormatter ==
    /\ pc = "writing" /\ calls < MaxCalls
    /\ op' = "SetFormatter"
    /\ \E key \in Keys, fmts \in ColumnFormatters :
          w' = SetFormatter(w, key, fmts)
    /\ before' = Snapshot
    /\ calls' = calls + 1
    /\ UNCHANGED <<pc, cw, wErr, codecRows, out, sinkFails>>
    /\ UNCHANGED <<readerVars, recordVars, pureVars, goVars>>

\* writer.EmptyValue = "-"
AssignEmptyValue ==
    /\ pc = "writing" /\ calls < MaxCalls
    /\ op' = "EmptyValue"
    /\ w' = [w EXCEPT !.EmptyValue = OtherEmptyValue]
    /\ before' = Snapshot
    /\ calls' = calls + 1
    /\ UNCHANGED <<pc, cw, wErr, codecRows, out, sinkFails>>
    /\ UNCHANGED <<readerVars, recordVars, pureVars, goVars>>

\* record.Set(key, value, formatter...)
CallSet ==
    /\ pc = "writing" /\ calls < MaxCalls
    /\ op' = "Set"
    /\ \E key \in Keys, v \in SetValues, fmts \in SetFormatters :
          /\ rec' = Set(rec, key, v, fmts)
          /\ setLog' = Append(setLog, [key |-> key, value |-> v, fmts |-> fmts])
    /\ before' = Snapshot
    /\ calls' = calls + 1
    /\ UNCHANGED <<pc, w, cw, wErr, codecRows, out, sinkFails>>
    /\ UNCHANGED <<readerVars, pureVars, goVars>>

\* the destination starts to reject writes
BreakSink ==
    /\ pc = "writing" /\ calls < MaxCalls /\ ~sinkFails
    /\ op' = "BreakSink"
    /\ sinkFails' = TRUE
    /\ before' = Snapshot
    /\ calls' = calls + 1
    /\ UNCHANGED <<pc, w, cw, wErr, codecRows, out>>
    /\ UNCHANGED <<readerVars, recordVars, pureVars, goVars>>

\* err := writer.WriteHeader()
CallWriteHeader ==
    /\ pc = "writing" /\ calls < MaxCalls
    /\ op' = "WriteHeader"
    /\ LET x == WriteHeader(w, cw, out, sinkFails)
       IN  /\ wErr' = x.err
           /\ cw' = x.cw
           /\ out' = x.out
           /\ codecRows' = codecRows \o x.rows
    /\ before' = Snapshot
    /\ calls' = calls + 1
    /\ UNCHANGED <<pc, w, sinkFails>>
    /\ UNCHANGED <<readerVars, recordVars, pureVars, goVars>>

\* err := writer.Write(record)
CallWrite ==
    /\ pc = "writing" /\ calls < MaxCalls
    /\ op' = "Write"
    /\ LET x == Write(w, cw, out, sinkFails, rec)
       IN  /\ wErr' = x.err
           /\ cw' = x.cw
           /\ out' = x.out
           /\ codecRows' = codecRows \o x.rows
    /\ before' = Snapshot
    /\ calls' = calls + 1
    /\ UNCHANGED <<pc, w, sinkFails>>
    /\ UNCHANGED <<readerVars, recordVars, pureVars, goVars>>

NextWriter ==
    \/ CallNewWriter \/ CallSetDefault \/ CallSetFormatter \/ AssignEmptyValue
    \/ CallSet \/ BreakSink \/ CallWriteHeader \/ CallWrite

SpecWriter == InitWriter /\ [][NextWriter]_vars

-----------------------------------------------------------------------------
(* The construction scenario: a Reader and a Writer are built, in either    *)
(* order, with the same header arguments; the source holds a header row, a  *)
(* row that cannot be read, or nothing.                                    *)

ConstructHeaders == UNION {[1..n -> Keys] : n \in 0..(MaxHeader + 2)}

ConstructStreams ==
    {<<>>}
    \cup {<<[record |-> h, err |-> NoErr]>> : h \in ConstructHeaders \ {<<>>}}
    \cup {<<[record |-> <<<<"a">>>>, err |-> ErrParse("ErrQuote")]>>,
          <<[record |-> <<<<>>>>, err |-> ErrIO]>>}

InitConstruct ==
    /\ pc = "start"
    /\ op = "none"
    /\ hdrArg \in ConstructHeaders
    /\ src \in ConstructStreams
    /\ input = CsvReader(src)
    /\ inputPrev = CsvReader(src)
    /\ rd = Nil /\ rdErr = NoErr /\ rdRec = Nil /\ got = <<>> /\ all = <<>>
    /\ w = Nil /\ cw = CsvWriter /\ wErr = NoErr
    /\ rec = NewRecord /\ setLog = <<>>
    /\ codecRows = <<>> /\ out = <<>> /\ sinkFails = FALSE
    /\ before = Nil /\ calls = 0
    /\ PureIdle /\ GoIdle

ConstructReader ==
    /\ pc \in {"start", "writer"}
    /\ NewReaderCall
    /\ pc' = IF pc = "start" THEN "reader" ELSE "both"
    /\ UNCHANGED <<writerVars, recordVars, calls, pureVars, goVars>>

ConstructWriter ==
    /\ pc \in {"start", "reader"}
    /\ NewWriterCall
    /\ pc' = IF pc = "start" THEN "writer" ELSE "both"
    /\ UNCHANGED <<readerVars, recordVars, pureVars, goVars>>

NextConstruct == ConstructReader \/ ConstructWriter

SpecConstruct == InitConstruct /\ [][NextConstruct]_vars

\* the first name of h, in header order, that repeats an earlier one
FirstRepeated(h) ==
    h[SetMin({j \in 1..Len(h) : \E i \in 1..(j - 1) : h[i] = h[j]})]

\* what NewReader or NewWriter must return for the header h: no object and
\* DuplicateKey of the first repeated name, or an object and no error
DuplicateRule(h, obj, err) ==
    IF NoRepeat(h) THEN obj # Nil /\ err = NoErr
    ELSE obj = Nil /\ err = ErrDuplicateKey(FirstRepeated(h))

\* C2: NewReader (header given, or read from the first row) and NewWriter
\* return, for a header with a repeated name, no object and DuplicateKey
\* carrying the first name in header order that repeats an earlier one; for
\* a header without repeated name they never return DuplicateKey.
C2_DuplicateKeyOnRepeatedName ==
    /\ pc \in {"writer", "both"} => DuplicateRule(hdrArg, w, wErr)
    /\ (pc \in {"reader", "both"} /\ hdrArg # <<>>)
       => DuplicateRule(hdrArg, rd, rdErr)
    /\ (pc \in {"reader", "both"} /\ hdrArg = <<>>)
       => IF src # <<>> /\ src[1].err = NoErr
          THEN DuplicateRule(src[1].record, rd, rdErr)
          ELSE rdErr.kind # "ErrDuplicateKey"

\* both constructors refused a header whose first repeated name is not the
\* first name that occurs twice
C2_Witness ==
    /\ pc = "both"
    /\ hdrArg = <<<<"a">>, <<"b">>, <<"b">>, <<"a">>>>
    /\ w = Nil /\ rd = Nil /\ wErr = ErrDuplicateKey(<<"b">>) /\ rdErr = wErr

-----------------------------------------------------------------------------
(* Properties of the Reader scenario *)

\* every item of the source is a well-formed row of exactly n fields
UniformRows(items, n) ==
    \A k \in 1..Len(items) : items[k].err = NoErr /\ Len(items[k].record) = n

\* C1: for a header H of unique names and a stream whose rows all have |H|
\* fields, a Reader built with H returns, Read after Read, one Record per row
\* in stream order, the k-th Record giving for H[i] the i-th field of the k-th
\* row, and reports io.EOF exactly once the rows are used up.
C1_ReadReturnsRowsByName ==
    (pc = "reading" /\ hdrArg # <<>> /\ UniformRows(src, Len(hdrArg)))
    => /\ rdErr \in {NoErr, EOF}
       /\ (rdErr = EOF <=> input.reads > Len(src))
       /\ Len(got) = IF input.reads > Len(src) THEN Len(src) ELSE input.reads
       /\ \A k \in 1..Len(got) : \A i \in 1..Len(hdrArg) :
             Get(got[k], hdrArg[i]) = Ok(src[k].record[i])

\* two different rows of two fields were read by name up to end-of-stream
C1_Witness ==
    /\ pc = "reading" /\ Len(hdrArg) = 2 /\ UniformRows(src, 2)
    /\ Len(src) = 2 /\ src[1] # src[2] /\ src[1].record[1] # src[1].record[2]
    /\ rdErr = EOF /\ Len(got) = 2

\* C9: NewReader with an explicit non-empty header reads nothing from the
\* csv.Reader and (the header having no repeated name) succeeds whatever the
\* stream holds, and a ReadAll on an empty stream then returns no record and
\* no error; NewReader without header makes exactly one csv read, and when
\* that read fails (io.EOF on an empty stream included) returns that very
\* error and no Reader.
C9_ConstructionReads ==
    /\ (op = "NewReader" /\ hdrArg # <<>>)
       => /\ input = CsvReader(src)
          /\ (NoRepeat(hdrArg) => rd # Nil /\ rdErr = NoErr)
    /\ (op = "NewReader" /\ hdrArg = <<>>)
       => /\ input.reads = 1
          /\ (src = <<>> => rd = Nil /\ rdErr = EOF)
          /\ (src # <<>> /\ src[1].err # NoErr => rd = Nil /\ rdErr = src[1].err)
    /\ (op = "ReadAll" /\ pc = "drained" /\ hdrArg # <<>> /\ src = <<>>)
       => all = <<>> /\ rdErr = NoErr

\* a Reader was built with an explicit header on an empty stream, and ReadAll
\* was called on it and returned
C9_Witness ==
    /\ op = "ReadAll" /\ pc = "drained" /\ hdrArg # <<>> /\ src = <<>> /\ rd # Nil

\* a ReadAll call has returned
ReadAllDone == op = "ReadAll" /\ pc = "drained"

\* the rows the Read calls of ReadAll were given, as positions among the
\* rows that remained when it was called, in the order of the calls
ReadAllRows ==
    LET mine == SelectSeq(res.trace, LAMBDA e : e.by = "ReadAll" /\ e.err # EOF)
    IN  [k \in 1..Len(mine) |-> mine[k].row]

\* C10: ReadAll returns with no error the Records of the rows its Read calls
\* are given, in order, when each of them is well formed and has the
\* header's field count: all the rows that remain, in stream order, unless
\* another goroutine reads from the Reader during the call; otherwise it
\* returns the error of the first row that is not (the row's own error, or
\* the field-count error) and no Record at all.
C10_ReadAllAllOrNothing ==
    ReadAllDone =>
        LET rem  == inputPrev.items
            h    == rd.header
            rows == ReadAllRows
            bad  == {k \in 1..Len(rows) :
                        \/ rem[rows[k]].err # NoErr
                        \/ Len(rem[rows[k]].record) # Len(h)}
        IN  /\ \A k \in 1..(Len(rows) - 1) : rows[k] < rows[k + 1]
            /\ OtherReads = <<>> => rows = [k \in 1..Len(rows) |-> k]
            /\ IF bad = {}
               THEN /\ rdErr = NoErr
                    /\ Len(all) = Len(rows)
                    /\ OtherReads = <<>> => Len(all) = Len(rem)
                    /\ input.items = <<>>
                    /\ \A k \in 1..Len(all) :
                          /\ DOMAIN all[k] = {h[i] : i \in 1..Len(h)}
                          /\ \A i \in 1..Len(h) :
                                Get(all[k], h[i]) = Ok(rem[rows[k]].record[i])
               ELSE /\ all = <<>>
                    /\ SetMin(bad) = Len(rows)
                    /\ rdErr = IF rem[rows[SetMin(bad)]].err # NoErr
                               THEN rem[rows[SetMin(bad)]].err ELSE ErrFieldCount

\* ReadAll met a row with the wrong field count after a good row, whose
\* Record it had accumulated; no other goroutine read
C10_Witness ==
    /\ ReadAllDone /\ Len(inputPrev.items) = 2
    /\ OtherReads = <<>> /\ ReadAllRows = <<1, 2>>
    /\ inputPrev.items[1].err = NoErr
    /\ Len(inputPrev.items[1].record) = Len(rd.header)
    /\ rdErr = ErrFieldCount /\ all = <<>>

\* ReadAll returned all the rows that remained, two rows, and nil
ReadAllReadEverything ==
    /\ ReadAllDone /\ Len(inputPrev.items) = 2
    /\ OtherReads = <<>> /\ rdErr = NoErr /\ Len(all) = 2

\* the Read of another goroutine took the first of the two rows that
\* remained, between the call of ReadAll and its first Read: ReadAll
\* returned the second row alone, and nil
ReadAllInterleaved ==
    /\ ReadAllDone /\ Len(inputPrev.items) = 2
    /\ [j \in 1..Len(res.trace) |-> res.trace[j].by] = <<"Read", "ReadAll", "ReadAll">>
    /\ ReadAllRows = <<2>>
    /\ rdErr = NoErr /\ Len(all) = 1

-----------------------------------------------------------------------------
(* Properties of the Writer scenario *)

\* the set of names of a header
NameSet(h) == {h[i] : i \in 1..Len(h)}

\* the row accepted by the csv.Writer during the last call
LastRow == codecRows[Len(codecRows)]

RECURSIVE Replay(_, _)
\* the Record obtained from r by the Set calls of log, in order
Replay(r, log) ==
    IF log = <<>> THEN r
    ELSE Replay(Set(r, Head(log).key, Head(log).value, Head(log).fmts), Tail(log))

RECURSIVE Reverse(_)
Reverse(q) == IF q = <<>> THEN <<>> ELSE Append(Reverse(Tail(q)), Head(q))

\* the Set calls of log that were not overwritten by a later one
LastSets(log) ==
    LET Keep(i) == \A j \in (i + 1)..Len(log) : log[j].key # log[i].key
        F[i \in 0..Len(log)] ==
            IF i = 0 THEN <<>>
            ELSE IF Keep(i) THEN Append(F[i - 1], log[i]) ELSE F[i - 1]
    IN  F[Len(log)]

\* the record r without its entries for names outside the header h
OnlyHeader(r, h) == [k \in (DOMAIN r) \cap NameSet(h) |-> r[k]]

\* C4: a Write that returns no error has handed the csv.Writer exactly one
\* row, of as many fields as the header, whose i-th field is the formatted
\* value of the i-th header column, and that row alone has reached the
\* destination; the row is the same without the Record's entries for names
\* outside the header, and the same when the Record's fields are set in the
\* opposite order.
C4_WriteRowFollowsHeader ==
    (op = "Write" /\ wErr = NoErr) =>
        /\ Len(codecRows) = Len(before.rows) + 1
        /\ SubSeq(codecRows, 1, Len(before.rows)) = before.rows
        /\ Len(LastRow) = Len(w.header)
        /\ \A i \in 1..Len(w.header) :
              getFormattedValue(w, rec, w.header[i]) = Ok(LastRow[i])
        /\ out = before.out \o before.cw.buf \o csvLine(LastRow)
        /\ formatColumns(w, OnlyHeader(rec, w.header), w.header, <<>>)
              = [row |-> LastRow, err |-> NoErr, resolved |-> Len(w.header)]
        /\ formatColumns(w, Replay(NewRecord, Reverse(LastSets(setLog))),
                         w.header, <<>>)
              = [row |-> LastRow, err |-> NoErr, resolved |-> Len(w.header)]

\* a Record set for a name outside the header and then for a header column
\* was written
C4_Witness ==
    /\ op = "Write" /\ wErr = NoErr
    /\ Len(setLog) = 2
    /\ setLog[1].key \notin NameSet(w.header)
    /\ setLog[2].key \in NameSet(w.header)
    /\ LastRow = <<<<"2", "7">>>>

\* the formatter a field is rendered with when it stores none
OrDefault(f) == IF f = NoFormatter THEN DefaultFormatter ELSE f

\* the value-level result for a column: the Record's entry alone when there
\* is one, else the registered default alone, else EmptyValue as it is
ValueLevel(wr, r, c) ==
    IF c \in DOMAIN r
    THEN Format(OrDefault(r[c].formatter), r[c].value)
    ELSE IF c \in DOMAIN wr.defaults
    THEN Format(OrDefault(wr.defaults[c].formatter), wr.defaults[c].value)
    ELSE Ok(wr.EmptyValue)

\* C5: for a column with no column-level formatter, the formatted value is
\* made from one source only: the Record's entry (value and formatter) when
\* the Record has one, whatever default is registered; else the registered
\* default (value and formatter); else EmptyValue; and a successful Write
\* puts exactly that in the column.
C5_ValuePrecedence ==
    pc = "writing" =>
        /\ \A c \in Keys :
              c \notin DOMAIN w.formatters
              => getFormattedValue(w, rec, c) = ValueLevel(w, rec, c)
        /\ (op = "Write" /\ wErr = NoErr)
           => \A i \in 1..Len(w.header) :
                 w.header[i] \notin DOMAIN w.formatters
                 => Ok(LastRow[i]) = ValueLevel(w, rec, w.header[i])

\* a column was written from a Record entry without formatter while a default
\* with a formatter was registered for it
C5_Witness ==
    /\ op = "Write" /\ wErr = NoErr /\ Len(w.header) >= 1
    /\ w.header[1] \in DOMAIN rec
    /\ rec[w.header[1]].formatter = NoFormatter
    /\ w.header[1] \in DOMAIN w.defaults
    /\ w.defaults[w.header[1]].formatter # NoFormatter
    /\ LastRow[1] = <<"x">>

\* C6: for a column with a column-level formatter C, the formatted value is
\* C applied to the string the value-level formatter made of the original
\* value (the error of the value-level formatter when it fails), whichever
\* the value-level formatter and the value are.
C6_ColumnFormatterLast ==
    pc = "writing" =>
        \A c \in Keys :
            c \in DOMAIN w.formatters
            => getFormattedValue(w, rec, c)
                 = IF ValueLevel(w, rec, c).err # NoErr
                   THEN Fail(ValueLevel(w, rec, c).err)
                   ELSE Format(w.formatters[c], StrV(ValueLevel(w, rec, c).s))

\* a value formatted by the Record's formatter and then by the column's
\* formatter was written
C6_Witness ==
    /\ op = "Write" /\ wErr = NoErr /\ Len(w.header) >= 1
    /\ w.header[1] \in DOMAIN w.formatters
    /\ w.header[1] \in DOMAIN rec
    /\ LastRow[1] = <<"<", "(", "x", ")", ">">>

-----------------------------------------------------------------------------
(* The Record scenario: a Record is built by Set calls or taken from a      *)
(* Reader, then read with Get and the typed accessors                      *)

\* the characters every string of at most MaxStrLen characters is built from
TypedAlphabet == {"1", "-", ".", "m"}

\* longer strings, in and out of the grammars of the typed accessors
TypedSamples ==
    { <<"t", "r", "u", "e">>, <<"f", "a", "l", "s", "e">>, <<"T", "R", "U", "E">>,
      <<"T", "r", "u", "e">>, <<"y", "e", "s">>, <<"t">>, <<"0">>,
      <<"2", "5">>, <<"-", "2", "5">>, <<"+", "2", "5">>, <<"2", "5", "x">>,
      <<"1", "5", ".", "6", "5">>, <<"1", "e", "5">>, <<"1", "e">>,
      <<"1", "e", "-", "5">>, <<"1", ".", "5", ".">>,
      <<"1", "2", ":", "5", "5">>, <<"1", ":", "0", "4">>, <<"2", "4", ":", "0", "0">>,
      <<"1", "2", ":", "6", "0">>, <<"1", "2", ":", "5">>, <<"1", "2", ":", "5", "5", "x">>,
      <<"1", "2", "m", "1", "0", "s">>, <<"1", "h">>, <<"5", "m", "s">>,
      <<"1", ".", "5", "s">>, <<"1", "0", "x">>, <<"1", "m", "1">>,
      <<":">>, <<"1", ":">>, <<"1", ":", "1">>,
      \* "2018-11-05 12:55:10", "2018-02-30 12:55:10", "2018-11-05  1:55:10.5"
      \* and "2018-11-05"
      <<"2", "0", "1", "8", "-", "1", "1", "-", "0", "5", " ", "1", "2", ":", "5", "5", ":", "1", "0">>,
      <<"2", "0", "1", "8", "-", "0", "2", "-", "3", "0", " ", "1", "2", ":", "5", "5", ":", "1", "0">>,
      <<"2", "0", "1", "8", "-", "1", "1", "-", "0", "5", " ", " ", "1", ":", "5", "5", ":", "1", "0", ".", "5">>,
      <<"2", "0", "1", "8", "-", "1", "1", "-", "0", "5">> }

TypedStrings == TypedSamples \cup StringsUpTo(TypedAlphabet, MaxStrLen)

\* the values a caller gives to Record.Set
RecordValues ==
    {StrV(s) : s \in TypedStrings} \cup {IntV(27), BoolV(TRUE), NilV, TimeV(775)}

\* the fields of the rows a Reader reads a Record from
ReadCells == {<<"t", "r", "u", "e">>, <<"1">>, <<>>}

\* what the csv.Reader of that Reader finds: a row, a malformed row, or the
\* end of the source
ReadItems ==
    {<<[record |-> r, err |-> NoErr]>> :
        r \in UNION {[1..n -> ReadCells] : n \in 1..MaxHeader}}
    \cup {<<[record |-> <<<<"1">>>>, err |-> ErrParse("ErrQuote")]>>, <<>>}

InitRecord ==
    /\ pc = "building"
    /\ op = "none"
    /\ rec = NewRecord /\ setLog = <<>>
    /\ w = Nil /\ cw = Nil /\ wErr = NoErr
    /\ codecRows = <<>> /\ out = <<>> /\ sinkFails = FALSE /\ before = Nil
    /\ calls = 0
    /\ ReaderIdle
    /\ PureIdle /\ GoIdle

\* record.Set(key, value)
SetTyped ==
    /\ pc = "building"
    /\ op' = "Set"
    /\ \E key \in Keys, v \in RecordValues : rec' = Set(rec, key, v, <<>>)
    /\ UNCHANGED <<pc, setLog, writerVars, readerVars, calls, pureVars, goVars>>

\* record, _ := reader.Read(), for a Reader with a header of unique names and
\* a row no longer than the header
TakeRead ==
    /\ pc = "building"
    /\ op' = "Read"
    /\ \E h \in Headers, items \in ReadItems :
          /\ h # <<>> /\ NoRepeat(h)
          /\ Read([header |-> h], CsvReader(items)).err.kind # "panic"
          /\ rec' = Read([header |-> h], CsvReader(items)).record
    /\ UNCHANGED <<pc, setLog, writerVars, readerVars, calls, pureVars, goVars>>

\* a call of an accessor with the name key: the call and what it returned
Access(name, key, result) ==
    /\ pc = "building"
    /\ pc' = "reading"
    /\ op' = name
    /\ probe' = key
    /\ res' = result
    /\ UNCHANGED <<recordVars, writerVars, readerVars, calls, goVars>>

CallGet == \E key \in Keys \cup {OtherKey} : Access("Get", key, Get(rec, key))

CallGetBool ==
    \E key \in Keys \cup {OtherKey} : Access("GetBool", key, GetBool(rec, key))

CallGetInt ==
    \E key \in Keys \cup {OtherKey} : Access("GetInt", key, GetInt(rec, key))

CallGetInt64 ==
    \E key \in Keys \cup {OtherKey} : Access("GetInt64", key, GetInt64(rec, key))

CallGetFloat64 ==
    \E key \in Keys \cup {OtherKey} :
        Access("GetFloat64", key, GetFloat64(rec, key))

\* the layouts a caller gives to GetTime
TimeLayouts == {LayoutHM, LayoutDateTime}

\* record.GetTime(layout, key): the call, with its layout, and what it
\* returned
CallGetTime ==
    \E key \in Keys \cup {OtherKey}, layout \in TimeLayouts :
        /\ pc = "building"
        /\ pc' = "reading"
        /\ op' = "GetTime"
        /\ probe' = [key |-> key, layout |-> layout]
        /\ res' = GetTime(rec, layout, key)
        /\ UNCHANGED <<recordVars, writerVars, readerVars, calls, goVars>>

CallGetDuration ==
    \E key \in Keys \cup {OtherKey} :
        Access("GetDuration", key, GetDuration(rec, key))

NextRecord ==
    \/ SetTyped \/ TakeRead \/ CallGet \/ CallGetBool \/ CallGetInt
    \/ CallGetInt64 \/ CallGetFloat64 \/ CallGetTime \/ CallGetDuration

SpecRecord == InitRecord /\ [][NextRecord]_vars

-----------------------------------------------------------------------------
(* Properties of the Record scenario *)

\* C3: for every Record, built by Set calls or read by a Reader, and every
\* name the Record holds no entry for, Get of that name returns the empty
\* string with ErrUnknownKey carrying the name; it never succeeds and never
\* fails with another error
C3_GetUnknownKey ==
    /\ \A key \in Keys \cup {OtherKey} :
          key \notin DOMAIN rec =>
              /\ Get(rec, key).s = <<>>
              /\ Get(rec, key).err = [kind |-> "ErrUnknownKey", key |-> key]
    /\ (op = "Get" /\ probe \notin DOMAIN rec) =>
          /\ res.s = <<>>
          /\ res.err = [kind |-> "ErrUnknownKey", key |-> probe]

\* a Record read from a row shorter than the header was asked for the name of
\* the missing column
C3_Witness ==
    /\ op = "Get"
    /\ <<"a">> \in DOMAIN rec
    /\ probe = <<"b">> /\ probe \notin DOMAIN rec
    /\ res.err.kind = "ErrUnknownKey"

AllDigits(s) == \A i \in 1..Len(s) : IsDigit(s[i])

Unsigned(s) == IF s # <<>> /\ s[1] \in {"+", "-"} THEN Tail(s) ELSE s

\* the decimal integers: an optional sign and one digit at least
IntGrammar(s) == Unsigned(s) # <<>> /\ AllDigits(Unsigned(s))

\* digits with at most one '.' among them, one digit at least
DecimalNumber(s) ==
    /\ \A i \in 1..Len(s) : IsDigit(s[i]) \/ s[i] = "."
    /\ Cardinality({i \in 1..Len(s) : s[i] = "."}) <= 1
    /\ \E i \in 1..Len(s) : IsDigit(s[i])

\* the decimal floating point numbers: an optional sign, a decimal number, and
\* an optional exponent of 'e', an optional sign and one digit at least
FloatGrammar(s) ==
    \E n \in 1..Len(Unsigned(s)) :
        LET u == Unsigned(s)
            e == SubSeq(u, n + 1, Len(u))
        IN  /\ DecimalNumber(SubSeq(u, 1, n))
            /\ \/ e = <<>>
               \/ /\ e[1] \in {"e", "E"}
                  /\ IntGrammar(Tail(e))

\* one group of a duration: a decimal number and a unit
DurationGroup(g) ==
    \E n \in 1..Len(g) :
        /\ DecimalNumber(SubSeq(g, 1, n))
        /\ SubSeq(g, n + 1, Len(g)) \in {<<"s">>, <<"m">>, <<"h">>, <<"m", "s">>}

RECURSIVE DurationGroups(_)
\* one group or more, one after the other
DurationGroups(s) ==
    \E n \in 1..Len(s) :
        /\ DurationGroup(SubSeq(s, 1, n))
        /\ n = Len(s) \/ DurationGroups(SubSeq(s, n + 1, Len(s)))

\* the durations: an optional sign, then "0" or groups of a number and a unit
DurationGrammar(s) == Unsigned(s) = <<"0">> \/ DurationGroups(Unsigned(s))

\* the times of the layout "15:04": an hour below 24 of one or two digits, ':',
\* and a minute below 60 of two digits
TimeGrammar(s) ==
    \E h \in 0..23, m \in 0..59 :
        \/ s = TwoDigits(h) \o <<":">> \o TwoDigits(m)
        \/ h < 10 /\ s = Itoa(h) \o <<":">> \o TwoDigits(m)

\* two digits as a number
TwoDigitValue(s) == DigitVal(s[1]) * 10 + DigitVal(s[2])

\* a time of day of the layout "15:04:05": an hour below 24 of one or two
\* digits, a minute and a second below 60 of two digits, and an optional
\* fraction of a '.' or ',' and digits
ClockGrammar(r) ==
    \E hl \in {1, 2} :
        /\ Len(r) >= hl + 6
        /\ AllDigits(SubSeq(r, 1, hl))
        /\ hl = 1 \/ TwoDigitValue(r) < 24
        /\ r[hl + 1] = ":" /\ r[hl + 4] = ":"
        /\ AllDigits(SubSeq(r, hl + 2, hl + 3))
        /\ TwoDigitValue(SubSeq(r, hl + 2, hl + 3)) < 60
        /\ AllDigits(SubSeq(r, hl + 5, hl + 6))
        /\ TwoDigitValue(SubSeq(r, hl + 5, hl + 6)) < 60
        /\ \/ Len(r) = hl + 6
           \/ /\ Len(r) >= hl + 8
              /\ r[hl + 7] \in {".", ","}
              /\ AllDigits(SubSeq(r, hl + 8, Len(r)))

\* the times of the layout "2006-01-02 15:04:05": a day of the calendar as
\* four, two and two digits, one space or more, and a time of day
DateTimeGrammar(s) ==
    /\ Len(s) >= 11
    /\ AllDigits(SubSeq(s, 1, 4)) /\ s[5] = "-"
    /\ AllDigits(SubSeq(s, 6, 7)) /\ s[8] = "-"
    /\ AllDigits(SubSeq(s, 9, 10))
    /\ LET year  == TwoDigitValue(SubSeq(s, 1, 2)) * 100 + TwoDigitValue(SubSeq(s, 3, 4))
           month == TwoDigitValue(SubSeq(s, 6, 7))
           day   == TwoDigitValue(SubSeq(s, 9, 10))
           leap  == year % 4 = 0 /\ (year % 100 # 0 \/ year % 400 = 0)
       IN  /\ month \in 1..12
           /\ day \in 1..31
           /\ month \in {4, 6, 9, 11} => day <= 30
           /\ month = 2 => day <= (IF leap THEN 29 ELSE 28)
    /\ \E k \in 11..Len(s) :
          /\ \A i \in 11..k : s[i] = " "
          /\ ClockGrammar(SubSeq(s, k + 1, Len(s)))

\* the grammar of a layout of TimeLayouts
LayoutGrammar(layout, s) ==
    IF layout = LayoutHM THEN TimeGrammar(s) ELSE DateTimeGrammar(s)

\* the name given to the accessor of the last call
ProbeKey == IF op = "GetTime" THEN probe.key ELSE probe

\* the grammar the accessor called name parses
InGrammar(name, s) ==
    CASE name = "GetBool"     -> s \in {<<"t", "r", "u", "e">>, <<"f", "a", "l", "s", "e">>}
      [] name = "GetInt"      -> IntGrammar(s)
      [] name = "GetInt64"    -> IntGrammar(s)
      [] name = "GetFloat64"  -> FloatGrammar(s)
      [] name = "GetTime"     -> LayoutGrammar(probe.layout, s)
      [] name = "GetDuration" -> DurationGrammar(s)

TypedAccessors ==
    {"GetBool", "GetInt", "GetInt64", "GetFloat64", "GetTime", "GetDuration"}

\* C8: a typed accessor returns the error of Get, unchanged, when Get of the
\* name fails; when Get succeeds it returns ErrWrongType carrying the name
\* exactly when the string is outside the grammar of the type, and for
\* GetBool every string but "true" and "false" is outside: it gives
\* ErrWrongType and never a boolean
C8_TypedAccessors ==
    op \in TypedAccessors =>
        LET g == Get(rec, ProbeKey)
        IN  /\ g.err # NoErr => res.err = g.err
            /\ g.err = NoErr =>
                  /\ InGrammar(op, g.s) <=> res.err = NoErr
                  /\ ~InGrammar(op, g.s) =>
                        /\ res.err.kind = "ErrWrongType"
                        /\ res.err.key = ProbeKey
            /\ (op = "GetBool" /\ res.err = NoErr) =>
                  /\ g.s \in {<<"t", "r", "u", "e">>, <<"f", "a", "l", "s", "e">>}
                  /\ res.val = (g.s = <<"t", "r", "u", "e">>)

\* GetBool was called on the entry "1", which strconv.ParseBool would accept,
\* and returned ErrWrongType
C8_Witness ==
    /\ op = "GetBool"
    /\ probe \in DOMAIN rec
    /\ rec[probe].value = StrV(<<"1">>)
    /\ res.err.kind = "ErrWrongType" /\ res.err.key = probe

\* the case "regular" of TestGetTime: GetTime("2006-01-02 15:04:05", key) on
\* the entry "2018-11-05 12:55:10"
TestGetTimeRegular ==
    /\ op = "GetTime" /\ probe.layout = LayoutDateTime
    /\ probe.key \in DOMAIN rec
    /\ Get(rec, probe.key).s = TimeFormat(LayoutDateTime, Date(2018, 11, 5, 12, 55, 10, 0))
    /\ res = Typed(Date(2018, 11, 5, 12, 55, 10, 0))

\* a time read with the layout "15:04" is a time of the first of January of
\* the year 0, whatever time a caller set
ParsedTimeOfDayHasNoDate ==
    (op = "GetTime" /\ probe.layout = LayoutHM /\ res.err = NoErr) =>
        /\ res.val.year = 0 /\ res.val.month = 1 /\ res.val.day = 1
        /\ res.val # TimeV(res.val.hour * 60 + res.val.min)

\* a zone "GMT-8" read with the layout of time.UnixDate: the clock read is
\* taken for UTC and shown eight hours earlier, the day before
ParsedGMTShiftsClock ==
    LET parse(value) == ParseTime(LayoutUnixDate, value).val
    IN  /\ parse(<<"F", "r", "i", " ", "F", "e", "b", " ", " ", "5", " ",
                   "0", "5", ":", "0", "0", ":", "5", "7", " ",
                   "G", "M", "T", "-", "8", " ", "2", "0", "1", "0">>)
              = DateIn(2010, 2, 4, 21, 0, 57, 0, -28800, <<"G", "M", "T", "-", "8">>)
        /\ parse(<<"F", "r", "i", " ", "D", "e", "c", " ", "3", "1", " ",
                   "2", "3", ":", "0", "0", ":", "5", "7", " ",
                   "G", "M", "T", "+", "2", " ", "2", "0", "1", "0">>)
              = DateIn(2011, 1, 1, 1, 0, 57, 0, 7200, <<"G", "M", "T", "+", "2">>)
        /\ parse(<<"F", "r", "i", " ", "F", "e", "b", " ", " ", "5", " ",
                   "0", "5", ":", "0", "0", ":", "5", "7", " ",
                   "P", "S", "T", " ", "2", "0", "1", "0">>)
              = DateIn(2010, 2, 5, 5, 0, 57, 0, 0, <<"P", "S", "T">>)

-----------------------------------------------------------------------------
(* The round trip scenario: a Writer with a header of unique names and no   *)
(* default nor column formatter writes one Record, and a Reader built with  *)
(* the same header on the text written reads it back                       *)

\* the characters every set string of at most MaxStrLen characters is built
\* from
CsvAlphabet == {"x", ",", "\"", "\n"}

\* strings with a carriage return or a space
CsvSamples ==
    { <<"\r">>, <<"\r", "\n">>, <<"x", "\r", "\n", "x">>, <<" ">>, <<" ", "x">>,
      <<"x", "\r">> }

\* the values a caller sets in the Record it writes
RoundTripValues ==
    {StrV(s) : s \in CsvSamples \cup StringsUpTo(CsvAlphabet, MaxStrLen)}
    \cup {IntV(27), BoolV(TRUE)}

InitRoundTrip ==
    /\ pc = "start"
    /\ op = "none"
    /\ hdrArg \in {h \in Headers : h # <<>> /\ NoRepeat(h)}
    /\ w = Nil /\ cw = CsvWriter /\ wErr = NoErr
    /\ rec = NewRecord /\ setLog = <<>>
    /\ codecRows = <<>> /\ out = <<>> /\ sinkFails = FALSE
    /\ before = Nil /\ calls = 0
    /\ src = <<>> /\ input = Nil /\ inputPrev = Nil /\ rd = Nil
    /\ rdErr = NoErr /\ rdRec = Nil /\ got = <<>> /\ all = <<>>
    /\ PureIdle /\ GoIdle

\* record.Set(key, value)
SetText ==
    /\ pc = "writing"
    /\ op' = "Set"
    /\ \E key \in Keys, v \in RoundTripValues : rec' = Set(rec, key, v, <<>>)
    /\ UNCHANGED <<pc, setLog, writerVars, readerVars, calls, pureVars, goVars>>

\* writer.EmptyValue = "-"
EmptyValueText ==
    /\ pc = "writing"
    /\ w.EmptyValue = defaultEmptyValue
    /\ op' = "EmptyValue"
    /\ w' = [w EXCEPT !.EmptyValue = OtherEmptyValue]
    /\ UNCHANGED <<pc, cw, wErr, codecRows, out, sinkFails, before, calls>>
    /\ UNCHANGED <<readerVars, recordVars, pureVars, goVars>>

\* err := writer.Write(record), the one row of the text
WriteRow ==
    /\ pc = "writing"
    /\ pc' = "written"
    /\ op' = "Write"
    /\ LET x == Write(w, cw, out, sinkFails, rec)
       IN  /\ wErr' = x.err
           /\ cw' = x.cw
           /\ out' = x.out
           /\ codecRows' = codecRows \o x.rows
    /\ before' = Snapshot
    /\ UNCHANGED <<w, sinkFails, calls>>
    /\ UNCHANGED <<readerVars, recordVars, pureVars, goVars>>

\* reader, err := NewReader(csv.NewReader(text written), header...)
ReadBack ==
    /\ pc = "written"
    /\ op' = "NewReader"
    /\ src' = csvItems(out)
    /\ LET x == NewReader(CsvReader(csvItems(out)), hdrArg)
       IN  /\ \E file \in ReaderFiles : rd' = ReaderOf(file, x.reader)
           /\ rdErr' = x.err
           /\ input' = x.cr
           /\ inputPrev' = CsvReader(csvItems(out))
           /\ pc' = IF x.err = NoErr THEN "reading" ELSE "failed"
    /\ UNCHANGED <<hdrArg, rdRec, got, all>>
    /\ UNCHANGED <<writerVars, recordVars, calls, pureVars, goVars>>

NextRoundTrip ==
    \/ CallNewWriter \/ EmptyValueText \/ SetText \/ WriteRow \/ ReadBack
    \/ CallRead

SpecRoundTrip == InitRoundTrip /\ [][NextRoundTrip]_vars

\* C7: round trip.  For every header of unique names and every Record, the
\* row written by a Writer with that header (no default, no column
\* formatter), read back by a Reader built with the same header, is a Record
\* whose Get gives, for every name of the header, the string the Writer
\* resolved for that column: the default rendering of the set value, or
\* EmptyValue when unset
C7_RoundTrip ==
    (pc = "reading" /\ op = "Read" /\ input.reads = 1) =>
        /\ rdErr = NoErr
        /\ \A i \in 1..Len(hdrArg) :
              Get(rdRec, hdrArg[i]) = Ok(codecRows[1][i])

\* the round trip of a row that is not one empty field and holds no carriage
\* return before a line feed
RoundTripOfOtherRows ==
    (/\ pc = "reading" /\ op = "Read" /\ input.reads = 1
     /\ codecRows[1] # <<<<>>>>
     /\ \A i \in 1..Len(codecRows[1]) :
           \A j \in 1..(Len(codecRows[1][i]) - 1) :
               ~(codecRows[1][i][j] = "\r" /\ codecRows[1][i][j + 1] = "\n")) =>
        /\ rdErr = NoErr
        /\ \A i \in 1..Len(hdrArg) :
              Get(rdRec, hdrArg[i]) = Ok(codecRows[1][i])

\* a row of two columns with a quote, a comma and a line feed was read back
C7_Witness ==
    /\ pc = "reading" /\ op = "Read" /\ input.reads = 1
    /\ hdrArg = <<<<"a">>, <<"b">>>>
    /\ codecRows[1] = <<<<"\"", ",">>, <<"\n">>>>
    /\ rdErr = NoErr

-----------------------------------------------------------------------------
(* Further properties of the Reader scenario: the end of the source and     *)
(* rows of the wrong length                                                *)

\* C11: when the csv.Reader reports io.EOF, Read returns no Record (nil) with
\* io.EOF itself, and so does every later Read of that Reader
C11_EndOfStreamReturnsNil ==
    (op = "Read" /\ inputPrev.items = <<>>) =>
        /\ rdErr = EOF
        /\ rdRec = Nil

\* a second Read was made on a source already at its end
C11_Witness ==
    /\ op = "Read" /\ inputPrev.items = <<>> /\ inputPrev.reads > Len(src)
    /\ hdrArg # <<>> /\ rd.file = "reader.go"
    /\ rdErr = EOF

\* C12: when the csv.Reader delivers a row whose field count differs from the
\* length of the header, Read returns csv.ErrFieldCount and a Record holding
\* the fields of the row under the header names of their positions, and the
\* next Read starts at the next row
C12_FieldCountNonFatal ==
    (/\ op = "Read" /\ inputPrev.items # <<>>
     /\ Head(inputPrev.items).err = NoErr
     /\ Len(Head(inputPrev.items).record) # Len(rd.header)) =>
        LET row == Head(inputPrev.items).record
        IN  /\ rdErr = ErrFieldCount
            /\ rdRec # Nil
            /\ \A i \in 1..Len(row) :
                  i <= Len(rd.header) => Get(rdRec, rd.header[i]) = Ok(row[i])
            /\ input.items = Tail(inputPrev.items)

\* a row shorter than the header was read, then the row after it
C12_Witness ==
    /\ op = "Read" /\ rdErr = NoErr /\ input.reads = 2
    /\ hdrArg # <<>> /\ Len(src) = 2 /\ rd.file = "reader.go"
    /\ src[1].err = NoErr /\ Len(src[1].record) < Len(hdrArg)
    /\ Len(src[2].record) = Len(hdrArg)

-----------------------------------------------------------------------------
(* Goroutines: sync.Mutex, and what each goroutine holds between two steps  *)

Goroutines == 1..MaxGo

\* a goroutine that is in no call
GoIdleThread == [pc |-> "idle", x |-> Nil, todo |-> <<>>]

\* a faulty mutex: Lock returns whoever holds it
canLockAlways(m) == TRUE

\* sync.Mutex.Lock() returns only when nobody holds the mutex
canLock(m) == m = 0

-----------------------------------------------------------------------------
(* The concurrent Reader scenario: goroutines call Read on one Reader built *)
(* with a header; every row of the source has the length of the header.    *)
(* csv.Reader.Read takes time: it finds the next row (GoDecode) and then    *)
(* leaves the csv.Reader after that row (GoDecoded).                       *)

\* the sources of the scenario: rows of the length of the header, the fields
\* of one row alike, so that a row is told from another by any of its fields
GoStreams(h) ==
    {s \in Streams :
        \A k \in 1..Len(s) :
           /\ s[k].err = NoErr /\ Len(s[k].record) = Len(h)
           /\ \A i \in 1..Len(h) : s[k].record[i] = s[k].record[1]}

InitGoRead ==
    /\ pc = "start"
    /\ op = "none"
    /\ hdrArg \in {h \in Headers : h # <<>> /\ NoRepeat(h)}
    /\ src \in GoStreams(hdrArg)
    /\ input = CsvReader(src)
    /\ inputPrev = CsvReader(src)
    /\ rd = Nil /\ rdErr = NoErr /\ rdRec = Nil /\ got = <<>> /\ all = <<>>
    /\ WriterIdle /\ PureIdle
    /\ mutex = 0
    /\ threads = [t \in Goroutines |-> GoIdleThread]
    /\ returned = <<>>

\* reader, err := NewReader(csvReader, header...), before any goroutine calls
GoNewReader ==
    /\ pc = "start"
    /\ NewReaderCall
    /\ pc' = IF rdErr' = NoErr THEN "reading" ELSE "failed"
    /\ UNCHANGED <<writerVars, recordVars, calls, pureVars, goVars>>

\* what a goroutine holds during a call on the Reader: the call, the
\* records ReadAll has accumulated, what r.reader.Read() returned
GoReadCall(name) == [op |-> name, records |-> <<>>, read |-> Nil]

\* goroutine t calls reader.Read()
GoRead(t) ==
    /\ pc = "reading" /\ calls < MaxCalls
    /\ threads[t].pc = "idle"
    /\ threads' = [threads EXCEPT ![t].pc = "Lock", ![t].x = GoReadCall("Read")]
    /\ calls' = calls + 1
    /\ op' = "Read"
    /\ UNCHANGED <<pc, readerVars, writerVars, recordVars, pureVars, mutex, returned>>

\* the ReadAll calls the goroutines make on the Reader, all together
MaxReadAll == 1

\* the ReadAll calls made so far: those that returned and those under way
ReadAllCalls ==
    SelectSeq(returned, LAMBDA e : e.op = "ReadAll")
    \o SelectSeq([t \in Goroutines |-> threads[t]],
                 LAMBDA th : th.pc # "idle" /\ th.x.op = "ReadAll")

\* goroutine t calls reader.ReadAll(), on the Reader that has it: the loop
\* calls Read, which takes the mutex for itself; ReadAll holds no lock of
\* its own
GoReadAll(t) ==
    /\ pc = "reading" /\ calls < MaxCalls
    /\ rd.file = "record_test.go"
    /\ threads[t].pc = "idle"
    /\ Len(ReadAllCalls) < MaxReadAll
    /\ threads' = [threads EXCEPT ![t].pc = "Lock", ![t].x = GoReadCall("ReadAll")]
    /\ calls' = calls + 1
    /\ op' = "ReadAll"
    /\ UNCHANGED <<pc, readerVars, writerVars, recordVars, pureVars, mutex, returned>>

\* r.mutex.Lock()
GoReadLock(t) ==
    /\ threads[t].pc = "Lock"
    /\ canLock(mutex)
    /\ mutex' = t
    /\ threads' = [threads EXCEPT ![t].pc = "Decode"]
    /\ UNCHANGED <<pc, op, readerVars, writerVars, recordVars, calls, pureVars, returned>>

\* r.reader.FieldsPerRecord = len(r.header), and r.reader.Read() finds the
\* next row
GoDecode(t) ==
    /\ threads[t].pc = "Decode"
    /\ input' = [input EXCEPT !.FieldsPerRecord = Len(rd.header)]
    /\ threads' = [threads EXCEPT ![t].pc = "Decoding",
                                  ![t].x.read = csvRead(input')]
    /\ UNCHANGED <<pc, op, src, hdrArg, inputPrev, rd, rdErr, rdRec, got, all>>
    /\ UNCHANGED <<writerVars, recordVars, calls, pureVars, mutex, returned>>

\* r.reader.Read() returns: the csv.Reader is past the row it found
GoDecoded(t) ==
    /\ threads[t].pc = "Decoding"
    /\ input' = threads[t].x.read.cr
    /\ inputPrev' = input
    /\ threads' = [threads EXCEPT ![t].pc = "Decoded"]
    /\ UNCHANGED <<pc, op, src, hdrArg, rd, rdErr, rdRec, got, all>>
    /\ UNCHANGED <<writerVars, recordVars, calls, pureVars, mutex, returned>>

\* what a Read call returned to goroutine t, inside ReadAll or not: the
\* Read of record_test.go returns nil with an error, the Read of reader.go
\* the Record of what r.reader.Read() returned
GoReadResult(t) ==
    [go |-> t, op |-> "Read", in |-> threads[t].x.op,
     record |-> IF rd.file = "record_test.go" /\ threads[t].x.read.err # NoErr
                THEN Nil
                ELSE rowFields(rd.header, threads[t].x.read.record),
     err |-> threads[t].x.read.err]

\* `return nil, err` or the fields loop and `return &Record{fields}, err`,
\* and the deferred r.mutex.Unlock(); in ReadAll the loop then appends the record and calls
\* Read again, or returns: the records and nil at io.EOF, nil and the error
\* at any other error
GoReadReturn(t) ==
    /\ threads[t].pc = "Decoded"
    /\ mutex' = IF mutex = t THEN 0 ELSE mutex
    /\ LET x == threads[t].x
           r == GoReadResult(t)
       IN  IF x.op = "Read"
           THEN /\ returned' = Append(returned, r)
                /\ threads' = [threads EXCEPT ![t] = GoIdleThread]
           ELSE IF r.err = NoErr
           THEN /\ returned' = Append(returned, r)
                /\ threads' = [threads EXCEPT
                      ![t].pc = "Lock",
                      ![t].x = [GoReadCall("ReadAll") EXCEPT
                                  !.records = Append(x.records, r.record)]]
           ELSE /\ returned' = returned \o
                      <<r, [go |-> t, op |-> "ReadAll", in |-> "ReadAll",
                            records |-> IF r.err = EOF THEN x.records ELSE <<>>,
                            err |-> IF r.err = EOF THEN NoErr ELSE r.err]>>
                /\ threads' = [threads EXCEPT ![t] = GoIdleThread]
    /\ UNCHANGED <<pc, op, readerVars, writerVars, recordVars, calls, pureVars>>

NextGoRead ==
    \/ GoNewReader
    \/ \E t \in Goroutines :
          \/ GoRead(t) \/ GoReadAll(t) \/ GoReadLock(t) \/ GoDecode(t)
          \/ GoDecoded(t) \/ GoReadReturn(t)

SpecGoRead == InitGoRead /\ [][NextGoRead]_vars

\* the Read calls that returned, those made by ReadAll included, in the
\* order of their return
ReadReturns == SelectSeq(returned, LAMBDA e : e.op = "Read")

\* the ReadAll calls that returned
ReadAllReturns == SelectSeq(returned, LAMBDA e : e.op = "ReadAll")

\* the records the Read calls of goroutine t returned without error inside
\* ReadAll, in order
ReadInAll(t) ==
    LET mine == SelectSeq(ReadReturns,
                          LAMBDA e : e.go = t /\ e.in = "ReadAll" /\ e.err = NoErr)
    IN  [k \in 1..Len(mine) |-> mine[k].record]

\* the goroutines between r.mutex.Lock() and the return of Read
InRead == {t \in Goroutines : threads[t].pc \in {"Decode", "Decoding", "Decoded"}}

\* C13: under every interleaving of Read calls on one Reader, those that
\* concurrent ReadAll calls make included, at most one call is decoding a row
\* at any time, each call advances the csv.Reader by exactly one row, and
\* every row of the source is returned to exactly one caller: the Read calls
\* that returned hold, in order, the rows of the source one by one, then
\* io.EOF
C13_ReadsSerialized ==
    pc = "reading" =>
        /\ Cardinality(InRead) <= 1
        /\ input.reads = Len(ReadReturns)
                         + Cardinality({t \in Goroutines : threads[t].pc = "Decoded"})
        /\ \A k \in 1..Len(ReadReturns) :
              IF k <= Len(src)
              THEN /\ ReadReturns[k].err = NoErr
                   /\ \A i \in 1..Len(hdrArg) :
                         Get(ReadReturns[k].record, hdrArg[i]) = Ok(src[k].record[i])
              ELSE /\ ReadReturns[k].err = EOF
                   /\ ReadReturns[k].record
                         = IF rd.file = "reader.go" THEN NewRecord ELSE Nil

\* a goroutine got the first row, called Read again and waits for the mutex
\* while another goroutine is decoding the second row
C13_Witness ==
    /\ pc = "reading" /\ Len(src) = 2 /\ src[1] # src[2]
    /\ Len(returned) = 1
    /\ \E t, u \in Goroutines :
          /\ t # u
          /\ returned[1].go = t
          /\ threads[t].pc = "Lock"
          /\ threads[u].pc = "Decoding" /\ mutex = u
          /\ threads[u].x.read.record = src[2].record

\* ReadAll holds the mutex only inside each Read: a ReadAll call returns the
\* rows its own Read calls got, in order, and nil
ReadAllReturnsItsReads ==
    \A k \in 1..Len(ReadAllReturns) :
       /\ ReadAllReturns[k].err = NoErr
       /\ Cardinality({l \in 1..Len(ReadAllReturns) :
                          ReadAllReturns[l].go = ReadAllReturns[k].go}) = 1
             => ReadAllReturns[k].records = ReadInAll(ReadAllReturns[k].go)

\* ReadAll returned the first row only, the second went to the Read call of
\* another goroutine
ReadAllSharesRows ==
    /\ Len(src) = 2 /\ src[1] # src[2]
    /\ \E k, l \in 1..Len(returned) :
          /\ returned[k].op = "ReadAll" /\ returned[k].err = NoErr
          /\ Len(returned[k].records) = 1
          /\ \A i \in 1..Len(hdrArg) :
                Get(returned[k].records[1], hdrArg[i]) = Ok(src[1].record[i])
          /\ returned[l].op = "Read" /\ returned[l].in = "Read"
          /\ returned[l].go # returned[k].go
          /\ \A i \in 1..Len(hdrArg) :
                Get(returned[l].record, hdrArg[i]) = Ok(src[2].record[i])

-----------------------------------------------------------------------------
(* bufio.Writer, the buffer under csv.Writer, statement by statement: the   *)
(* first n bytes of buf are buffered, what lies beyond n stays in the array. *)
(* A row is far shorter than the buffer, so a write never flushes.          *)

\* bufio.NewWriter(w)
BufioWriter == [buf |-> <<>>, n |-> 0, err |-> NoErr]

\* io.ErrShortWrite
ErrShortWrite == [kind |-> "io.ErrShortWrite"]

\* the byte of the array that no write has stored yet
NUL == "\\0"

\* the array b.buf, at least len bytes of it
bufArray(buf, len) ==
    IF Len(buf) >= len THEN buf
    ELSE buf \o [i \in 1..(len - Len(buf)) |-> NUL]

\* copy(b.buf[at:], s), or b.buf[at] = c: the bytes of s stored from index at
bufStore(buf, at, s) ==
    LET array == bufArray(buf, at + Len(s))
    IN  SubSeq(array, 1, at) \o s \o SubSeq(array, at + Len(s) + 1, Len(array))

\* the memmove of copy(b.buf[0:b.n-n], b.buf[n:b.n]), once the two slices
\* are made: count bytes go from index from to index 0
bufCopy(buf, from, count) ==
    LET array == bufArray(buf, from + count)
    IN  IF count = 0 THEN buf
        ELSE SubSeq(array, from + 1, from + count)
             \o SubSeq(array, count + 1, Len(array))

\* one write csv.Writer.Write makes into the bufio.Writer: the method
\* called and the bytes
Piece(fn, s) == [fn |-> fn, s |-> s]

RECURSIVE specialAt(_)
\* i := strings.IndexAny(field, "\"\r\n"), or len(field) when there is none
specialAt(field) ==
    IF field = <<>> \/ Head(field) \in {"\"", "\r", "\n"} THEN 0
    ELSE 1 + specialAt(Tail(field))

RECURSIVE quotedPieces(_)
\* the loop `for len(field) > 0` of a quoted field: the run before the next
\* special character, then the character encoded (UseCRLF is false)
quotedPieces(field) ==
    IF field = <<>> THEN <<>>
    ELSE LET i    == specialAt(field)
             rest == SubSeq(field, i + 1, Len(field))
         IN  <<Piece("WriteString", SubSeq(field, 1, i))>>
             \o (IF rest = <<>> THEN <<>>
                 ELSE <<IF Head(rest) = "\""
                        THEN Piece("WriteString", <<"\"", "\"">>)
                        ELSE Piece("WriteByte", <<Head(rest)>>)>>
                      \o quotedPieces(Tail(rest)))

RECURSIVE csvPieces(_, _)
\* the writes csv.Writer.Write(record) makes into the buffer, in order: a
\* comma before every field but the first, each field (between two quotes
\* and in runs when it needs quotes), the line feed
csvPieces(record, first) ==
    IF record = <<>> THEN <<Piece("WriteByte", <<"\n">>)>>
    ELSE (IF first THEN <<>> ELSE <<Piece("WriteRune", <<",">>)>>)
         \o (IF fieldNeedsQuotes(Head(record))
             THEN <<Piece("WriteByte", <<"\"">>)>>
                  \o quotedPieces(Head(record))
                  \o <<Piece("WriteByte", <<"\"">>)>>
             ELSE <<Piece("WriteString", Head(record))>>)
         \o csvPieces(Tail(record), FALSE)

RECURSIVE piecesText(_)
\* the bytes of a sequence of writes, one after the other
piecesText(pieces) ==
    IF pieces = <<>> THEN <<>>
    ELSE Head(pieces).s \o piecesText(Tail(pieces))

-----------------------------------------------------------------------------
(* The concurrent Writer scenario: goroutines call WriteHeader, Write and   *)
(* WriteAll on one Writer over a destination that takes every write (the   *)
(* statements of bufio are those of a destination that may fail: sinkFails *)
(* stays FALSE in this scenario).                                          *)
(* WriteAll calls Write for each record and then, holding no lock, Flush   *)
(* and Error on the csv.Writer: these run while another goroutine may be   *)
(* inside a Write, and every interleaving of their statements is a step    *)
(* sequence of the scenario.                                               *)

\* the calls the goroutines make on the Writer, all together
MaxWriteCalls == 2

\* the i-th Record the callers write: both columns hold the digit i, but
\* column b of the first, which holds a quote and so is written quoted
GoRecord(i) ==
    Set(Set(NewRecord, <<"a">>, StrV(Itoa(i)), <<>>),
        <<"b">>, StrV(IF i = 1 THEN <<"\"">> ELSE Itoa(i)), <<>>)

\* the records given to WriteAll
GoRecords == {[j \in 1..m |-> GoRecord(j + 1)] : m \in 0..MaxRows}

\* what a goroutine holds during a call: the call, the writes csv.Writer.Write
\* still has to make, the statement it is at inside a call of bufio, the
\* value it loaded from b.n, the n and the err that b.wr.Write returned, the
\* error to return, the rows the call is to write
GoCall(name, rows) ==
    [op |-> name, pieces |-> <<>>, at |-> "check", n |-> 0, wrote |-> 0,
     werr |-> NoErr, err |-> NoErr, rows |-> rows]

\* the row Write makes of a Record
GoRow(record) == formatColumns(w, record, w.header, <<>>).row

InitGoWrite ==
    /\ pc = "start"
    /\ op = "none"
    /\ hdrArg \in {h \in Headers : NoRepeat(h)}
    /\ w = Nil /\ cw = BufioWriter /\ wErr = NoErr
    /\ rec = NewRecord /\ setLog = <<>>
    /\ codecRows = <<>> /\ out = <<>> /\ sinkFails = FALSE
    /\ before = Nil /\ calls = 0
    /\ src = <<>> /\ input = Nil /\ inputPrev = Nil /\ rd = Nil
    /\ rdErr = NoErr /\ rdRec = Nil /\ got = <<>> /\ all = <<>>
    /\ PureIdle
    /\ mutex = 0
    /\ threads = [t \in Goroutines |-> GoIdleThread]
    /\ returned = <<>>

\* writer, err := NewWriter(csvWriter, header...), before any goroutine calls
GoNewWriter ==
    /\ pc = "start"
    /\ op' = "NewWriter"
    /\ w' = NewWriter(hdrArg).writer
    /\ wErr' = NewWriter(hdrArg).err
    /\ pc' = IF wErr' = NoErr THEN "writing" ELSE "failed"
    /\ UNCHANGED <<cw, codecRows, out, sinkFails, before, calls>>
    /\ UNCHANGED <<readerVars, recordVars, pureVars, goVars>>

\* goroutine t calls writer.WriteHeader()
GoWriteHeader(t) ==
    /\ pc = "writing" /\ calls < MaxWriteCalls
    /\ threads[t].pc = "idle"
    /\ threads' = [threads EXCEPT ![t] =
          [pc |-> "Lock",
           x |-> GoCall("WriteHeader",
                        IF Len(w.header) # 0 THEN <<w.header>> ELSE <<>>),
           todo |-> <<>>]]
    /\ calls' = calls + 1
    /\ op' = "WriteHeader"
    /\ UNCHANGED <<pc, readerVars, writerVars, recordVars, pureVars, mutex, returned>>

\* goroutine t calls writer.Write(record)
GoWrite(t) ==
    /\ pc = "writing" /\ calls < MaxWriteCalls
    /\ threads[t].pc = "idle"
    /\ threads' = [threads EXCEPT ![t] =
          [pc |-> "Lock",
           x |-> GoCall("Write", <<GoRow(GoRecord(1))>>),
           todo |-> <<GoRecord(1)>>]]
    /\ calls' = calls + 1
    /\ op' = "Write"
    /\ UNCHANGED <<pc, readerVars, writerVars, recordVars, pureVars, mutex, returned>>

\* goroutine t calls writer.WriteAll(records): the loop calls Write, or is
\* over at once
GoWriteAll(t) ==
    /\ pc = "writing" /\ calls < MaxWriteCalls
    /\ threads[t].pc = "idle"
    /\ \E records \in GoRecords :
          threads' = [threads EXCEPT ![t] =
             [pc |-> IF records = <<>> THEN "AllFlush" ELSE "Lock",
              x |-> GoCall("WriteAll",
                           [j \in 1..Len(records) |-> GoRow(records[j])]),
              todo |-> records]]
    /\ calls' = calls + 1
    /\ op' = "WriteAll"
    /\ UNCHANGED <<pc, readerVars, writerVars, recordVars, pureVars, mutex, returned>>

\* w.mutex.Lock()
GoWriteLock(t) ==
    /\ pc = "writing"
    /\ threads[t].pc = "Lock"
    /\ canLock(mutex)
    /\ mutex' = t
    /\ threads' = [threads EXCEPT ![t].pc = "Format"]
    /\ UNCHANGED <<pc, op, readerVars, writerVars, recordVars, calls, pureVars, returned>>

\* the loop over the header of Write, or the test of len(w.header) of
\* WriteHeader
GoFormat(t) ==
    /\ pc = "writing"
    /\ threads[t].pc = "Format"
    /\ IF threads[t].x.op = "WriteHeader"
       THEN threads' = [threads EXCEPT
               ![t].pc = IF Len(w.header) # 0 THEN "Put" ELSE "Flush",
               ![t].x.pieces = IF Len(w.header) # 0
                               THEN csvPieces(w.header, TRUE) ELSE <<>>]
       ELSE LET f == formatColumns(w, Head(threads[t].todo), w.header, <<>>)
            IN  IF f.err # NoErr
                THEN threads' = [threads EXCEPT ![t].pc = "Unlock",
                                                ![t].x.err = f.err]
                ELSE threads' = [threads EXCEPT ![t].pc = "Put",
                                                ![t].x.pieces = csvPieces(f.row, TRUE)]
    /\ UNCHANGED <<pc, op, readerVars, writerVars, recordVars, calls, pureVars>>
    /\ UNCHANGED <<mutex, returned>>

\* the context of the errors of a call
GoContext(name) ==
    IF name = "WriteHeader" THEN "cannot write header line" ELSE "cannot write record"

\* a run-time panic in goroutine t: its deferred calls run, which is
\* w.mutex.Unlock() inside Write and WriteHeader and nothing in the Flush and
\* the Error() of WriteAll; the other goroutines go on until the runtime
\* ends the program
GoPanic(t, what) ==
    /\ threads' = [threads EXCEPT ![t].pc = "panic", ![t].x.err = Panic(what)]
    /\ mutex' = IF mutex = t THEN 0 ELSE mutex
    /\ UNCHANGED <<cw, out>>

\* the runtime ends the program after the panic of goroutine t
GoExit(t) ==
    /\ pc = "writing"
    /\ threads[t].pc = "panic"
    /\ pc' = "panicked"
    /\ wErr' = threads[t].x.err
    /\ UNCHANGED <<op, readerVars, recordVars, calls, pureVars, goVars>>
    /\ UNCHANGED <<w, cw, codecRows, out, sinkFails, before>>

\* one write of w.writer.Write into the buffer, WriteByte, WriteRune or
\* WriteString of bufio, one access to b.err, b.n or b.buf at a time: the
\* test of b.err, the index b.n of the store, the store into b.buf, the load
\* and the store of `b.n++` or `b.n += n`
GoPut(t) ==
    /\ pc = "writing"
    /\ threads[t].pc = "Put"
    /\ LET x     == threads[t].x
           piece == Head(x.pieces)
       IN  CASE x.at = "check" ->
                  /\ threads' = IF cw.err # NoErr
                                THEN [threads EXCEPT
                                        ![t].pc = "Unlock",
                                        ![t].x.err = Errorf(GoContext(x.op), cw.err)]
                                ELSE [threads EXCEPT ![t].x.at = "index"]
                  /\ UNCHANGED <<cw, out, mutex>>
             [] x.at = "index" ->
                  IF cw.n < 0
                  THEN GoPanic(t, IF piece.fn = "WriteString"
                                  THEN "slice bounds out of range"
                                  ELSE "index out of range")
                  ELSE /\ threads' = [threads EXCEPT ![t].x.at = "store",
                                                     ![t].x.n = cw.n]
                       /\ UNCHANGED <<cw, out, mutex>>
             [] x.at = "store" ->
                  /\ cw' = [cw EXCEPT !.buf = bufStore(cw.buf, x.n, piece.s)]
                  /\ threads' = [threads EXCEPT ![t].x.at = "load"]
                  /\ UNCHANGED <<out, mutex>>
             [] x.at = "load" ->
                  /\ threads' = [threads EXCEPT ![t].x.at = "add",
                                                ![t].x.n = cw.n]
                  /\ UNCHANGED <<cw, out, mutex>>
             [] x.at = "add" ->
                  /\ cw' = [cw EXCEPT !.n = x.n + Len(piece.s)]
                  /\ threads' = [threads EXCEPT
                        ![t].pc = IF Tail(x.pieces) = <<>> THEN "Flush" ELSE "Put",
                        ![t].x.pieces = Tail(x.pieces),
                        ![t].x.at = "check",
                        ![t].x.n = 0]
                  /\ UNCHANGED <<out, mutex>>
    /\ UNCHANGED <<pc, op, readerVars, recordVars, calls, pureVars>>
    /\ UNCHANGED <<w, wErr, codecRows, sinkFails, before, returned>>

\* w.writer.Flush(), of Write and WriteHeader ("Flush") or of WriteAll
\* ("AllFlush"), up to the write into the destination: the test of b.err,
\* the test b.n == 0, the slice b.buf[0:b.n], b.wr.Write of the slice, which
\* a destination that fails answers with 0 and its error
GoFlush(t) ==
    /\ pc = "writing"
    /\ threads[t].pc \in {"Flush", "AllFlush"}
    /\ LET x    == threads[t].x
           all0 == threads[t].pc = "AllFlush"
           over == [threads EXCEPT
                      ![t].pc = IF all0 THEN "AllError" ELSE "Error",
                      ![t].x.at = "check",
                      ![t].x.n = 0]
       IN  CASE x.at = "check" ->
                  /\ threads' = IF cw.err # NoErr THEN over
                                ELSE [threads EXCEPT ![t].x.at = "zero"]
                  /\ UNCHANGED <<cw, out, mutex>>
             [] x.at = "zero" ->
                  /\ threads' = IF cw.n = 0 THEN over
                                ELSE [threads EXCEPT ![t].x.at = "slice"]
                  /\ UNCHANGED <<cw, out, mutex>>
             [] x.at = "slice" ->
                  IF cw.n < 0
                  THEN GoPanic(t, "slice bounds out of range")
                  ELSE /\ threads' = [threads EXCEPT ![t].x.at = "write",
                                                     ![t].x.n = cw.n]
                       /\ UNCHANGED <<cw, out, mutex>>
             [] x.at = "write" ->
                  /\ out' = IF sinkFails THEN out
                            ELSE out \o SubSeq(bufArray(cw.buf, x.n), 1, x.n)
                  /\ threads' = [threads EXCEPT
                        ![t].pc = IF all0 THEN "AllFlushed" ELSE "Flushed",
                        ![t].x.at = "less",
                        ![t].x.n = 0,
                        ![t].x.wrote = IF sinkFails THEN 0 ELSE x.n,
                        ![t].x.werr = IF sinkFails THEN ErrIO ELSE NoErr]
                  /\ UNCHANGED <<cw, mutex>>
    /\ UNCHANGED <<pc, op, readerVars, recordVars, calls, pureVars>>
    /\ UNCHANGED <<w, wErr, codecRows, sinkFails, before, returned>>

\* the rest of bufio.Writer.Flush, after b.wr.Write returned n and err, one
\* access to b.n, b.buf or b.err at a time: the load of b.n for
\* `n < b.n && err == nil`, which makes err the short write, then either
\* `b.n = 0`, or, err being set: the load of b.n for `n > 0 && n < b.n`, the
\* load of b.n for the slice b.buf[0:b.n-n] and the one for the slice
\* b.buf[n:b.n], each with its bounds check, the memmove of copy, the load
\* and the store of `b.n -= n`, `b.err = err`
GoFlushed(t) ==
    /\ pc = "writing"
    /\ threads[t].pc \in {"Flushed", "AllFlushed"}
    /\ LET x    == threads[t].x
           over == [threads EXCEPT
                      ![t].pc = IF threads[t].pc = "AllFlushed"
                                THEN "AllError" ELSE "Error",
                      ![t].x.at = "check",
                      ![t].x.n = 0,
                      ![t].x.wrote = 0,
                      ![t].x.werr = NoErr]
       IN  CASE x.at = "less" ->
                  /\ \E err \in {IF x.wrote < cw.n /\ x.werr = NoErr
                                 THEN ErrShortWrite ELSE x.werr} :
                        threads' = [threads EXCEPT
                           ![t].x.at = IF err # NoErr THEN "cond" ELSE "reset",
                           ![t].x.werr = err]
                  /\ UNCHANGED <<cw, mutex>>
             [] x.at = "reset" ->
                  /\ cw' = [cw EXCEPT !.n = 0]
                  /\ threads' = over
                  /\ UNCHANGED mutex
             [] x.at = "cond" ->
                  /\ threads' = [threads EXCEPT
                        ![t].x.at = IF x.wrote > 0 /\ x.wrote < cw.n
                                    THEN "dst" ELSE "load"]
                  /\ UNCHANGED <<cw, mutex>>
             [] x.at = "dst" ->
                  IF cw.n - x.wrote < 0
                  THEN GoPanic(t, "slice bounds out of range")
                  ELSE /\ threads' = [threads EXCEPT ![t].x.at = "src",
                                                     ![t].x.n = cw.n - x.wrote]
                       /\ UNCHANGED <<cw, mutex>>
             [] x.at = "src" ->
                  IF x.wrote > cw.n
                  THEN GoPanic(t, "slice bounds out of range")
                  ELSE /\ threads' = [threads EXCEPT
                             ![t].x.at = "copy",
                             ![t].x.n = IF x.n < cw.n - x.wrote
                                        THEN x.n ELSE cw.n - x.wrote]
                       /\ UNCHANGED <<cw, mutex>>
             [] x.at = "copy" ->
                  /\ cw' = [cw EXCEPT !.buf = bufCopy(cw.buf, x.wrote, x.n)]
                  /\ threads' = [threads EXCEPT ![t].x.at = "load"]
                  /\ UNCHANGED mutex
             [] x.at = "load" ->
                  /\ threads' = [threads EXCEPT ![t].x.at = "sub",
                                                ![t].x.n = cw.n]
                  /\ UNCHANGED <<cw, mutex>>
             [] x.at = "sub" ->
                  /\ cw' = [cw EXCEPT !.n = x.n - x.wrote]
                  /\ threads' = [threads EXCEPT ![t].x.at = "err"]
                  /\ UNCHANGED mutex
             [] x.at = "err" ->
                  /\ cw' = [cw EXCEPT !.err = x.werr]
                  /\ threads' = over
                  /\ UNCHANGED mutex
    /\ UNCHANGED <<pc, op, readerVars, recordVars, calls, pureVars>>
    /\ UNCHANGED <<w, wErr, codecRows, out, sinkFails, before, returned>>

\* w.writer.Error(), that is w.w.Write(nil), up to `b.n += 0`: the test of
\* b.err, the slice b.buf[b.n:] of the copy
GoError(t) ==
    /\ pc = "writing"
    /\ threads[t].pc \in {"Error", "AllError"}
    /\ LET x    == threads[t].x
           all0 == threads[t].pc = "AllError"
       IN  CASE x.at = "check" ->
                  /\ threads' =
                        IF cw.err # NoErr
                        THEN [threads EXCEPT
                                ![t].pc = IF all0 THEN "AllReturn" ELSE "Unlock",
                                ![t].x.err = IF all0 THEN cw.err
                                             ELSE Errorf(GoContext(x.op), cw.err)]
                        ELSE [threads EXCEPT ![t].x.at = "slice"]
                  /\ UNCHANGED <<cw, out, mutex>>
             [] x.at = "slice" ->
                  IF cw.n < 0
                  THEN GoPanic(t, "slice bounds out of range")
                  ELSE /\ threads' = [threads EXCEPT
                             ![t].pc = IF all0 THEN "AllErrored" ELSE "Errored",
                             ![t].x.at = "load"]
                       /\ UNCHANGED <<cw, out, mutex>>
    /\ UNCHANGED <<pc, op, readerVars, recordVars, calls, pureVars>>
    /\ UNCHANGED <<w, wErr, codecRows, sinkFails, before, returned>>

\* `b.n += 0` of w.w.Write(nil): the load of b.n, then the store
GoErrored(t) ==
    /\ pc = "writing"
    /\ threads[t].pc \in {"Errored", "AllErrored"}
    /\ LET x == threads[t].x
       IN  CASE x.at = "load" ->
                  /\ threads' = [threads EXCEPT ![t].x.at = "add",
                                                ![t].x.n = cw.n]
                  /\ cw' = cw
             [] x.at = "add" ->
                  /\ cw' = [cw EXCEPT !.n = x.n]
                  /\ threads' = [threads EXCEPT
                        ![t].pc = IF threads[t].pc = "AllErrored"
                                  THEN "AllReturn" ELSE "Unlock",
                        ![t].x.at = "check",
                        ![t].x.n = 0]
    /\ UNCHANGED <<pc, op, readerVars, recordVars, calls, pureVars>>
    /\ UNCHANGED <<w, wErr, codecRows, out, sinkFails, before, mutex, returned>>

\* Write or WriteHeader returns, with the deferred w.mutex.Unlock(); in
\* WriteAll the loop goes on, or ends with the error of Write
GoUnlock(t) ==
    /\ pc = "writing"
    /\ threads[t].pc = "Unlock"
    /\ mutex' = IF mutex = t THEN 0 ELSE mutex
    /\ LET x == threads[t].x
       IN  IF x.op # "WriteAll" \/ x.err # NoErr
           THEN /\ returned' = Append(returned,
                                      [go |-> t, op |-> x.op, rows |-> x.rows,
                                       err |-> x.err])
                /\ threads' = [threads EXCEPT ![t] = GoIdleThread]
           ELSE /\ returned' = returned
                /\ threads' = [threads EXCEPT
                       ![t].pc = IF Tail(threads[t].todo) = <<>>
                                 THEN "AllFlush" ELSE "Lock",
                       ![t].todo = Tail(threads[t].todo)]
    /\ UNCHANGED <<pc, op, readerVars, writerVars, recordVars, calls, pureVars>>

\* return w.writer.Error() of WriteAll
GoWriteAllReturn(t) ==
    /\ pc = "writing"
    /\ threads[t].pc = "AllReturn"
    /\ LET x == threads[t].x
       IN  returned' = Append(returned,
                              [go |-> t, op |-> x.op, rows |-> x.rows, err |-> x.err])
    /\ threads' = [threads EXCEPT ![t] = GoIdleThread]
    /\ UNCHANGED <<pc, op, readerVars, writerVars, recordVars, calls, pureVars, mutex>>

NextGoWrite ==
    \/ GoNewWriter
    \/ \E t \in Goroutines :
          \/ GoWriteHeader(t) \/ GoWrite(t) \/ GoWriteAll(t)
          \/ GoWriteLock(t) \/ GoFormat(t) \/ GoPut(t)
          \/ GoFlush(t) \/ GoFlushed(t) \/ GoError(t) \/ GoErrored(t)
          \/ GoUnlock(t) \/ GoWriteAllReturn(t) \/ GoExit(t)

SpecGoWrite == InitGoWrite /\ [][NextGoWrite]_vars

\* the positions of the line feeds of the output
LineEnds == {i \in 1..Len(out) : out[i] = "\n"}

\* the line of the output that ends at position p, line feed included
LineAt(p) ==
    LET earlier == {q \in LineEnds : q < p}
        start   == IF earlier = {} THEN 1
                   ELSE (CHOOSE q \in earlier : \A q2 \in earlier : q2 <= q) + 1
    IN  SubSeq(out, start, p)

\* how many of the lines that end at or before p are the row
LinesOf(row, p) ==
    Cardinality({q \in LineEnds : q <= p /\ LineAt(q) = csvLine(row)})

\* how many times the calls of the set were to write the row
WantedBy(ks, row) ==
    Cardinality({c \in {<<k, j>> : k \in ks, j \in 1..(MaxRows + 1)} :
                    /\ c[2] <= Len(returned[c[1]].rows)
                    /\ returned[c[1]].rows[c[2]] = row})

\* the rows the callers write
GoRows ==
    {hdrArg} \cup {GoRow(GoRecord(i)) : i \in 1..(MaxRows + 1)}

\* C14: once every concurrent WriteHeader, Write and WriteAll call has
\* returned, the output is a sequence of whole rows, each the complete row of
\* exactly one call: every row appears at most as often as calls were to
\* write it, at least as often as calls that returned no error were to write
\* it, and the rows of WriteAll appear in the order of its records
C14_RowsNeverTorn ==
    (pc = "writing" /\ \A t \in Goroutines : threads[t].pc = "idle") =>
        /\ out = <<>> \/ out[Len(out)] = "\n"
        /\ \A p \in LineEnds : \E row \in GoRows : LineAt(p) = csvLine(row)
        /\ \A row \in GoRows :
              /\ LinesOf(row, Len(out)) <= WantedBy(1..Len(returned), row)
              /\ LinesOf(row, Len(out)) >=
                    WantedBy({k \in 1..Len(returned) : returned[k].err = NoErr}, row)
        /\ \A p \in LineEnds : \A i \in 2..MaxRows :
              GoRow(GoRecord(i)) # GoRow(GoRecord(i + 1)) =>
                 LinesOf(GoRow(GoRecord(i + 1)), p) <= LinesOf(GoRow(GoRecord(i)), p)

\* a write into the buffer panicked inside Write, under the mutex, and the
\* deferred Unlock released it; the WriteAll call of the other goroutine,
\* in its Flush or Error(), goes on until the program ends
GoPanicUnlocks ==
    /\ pc = "writing"
    /\ mutex = 0
    /\ \E t, u \in Goroutines :
          /\ threads[t].pc = "panic"
          /\ threads[t].x.at = "index"
          /\ threads[u].pc \in {"AllFlushed", "AllError", "AllErrored", "AllReturn"}

\* a slice expression of the copy of Flush panicked, in each of the two
FlushCopyPanics ==
    [at \in {"dst", "src"} |->
        /\ pc = "writing"
        /\ \E t \in Goroutines :
              /\ threads[t].pc = "panic"
              /\ threads[t].x.at = at
              /\ threads[t].x.wrote > 0]

\* WriteAll of two records by one goroutine and WriteAll of no record by
\* another, on a header of two columns: the first call returned nil, the
\* second the short write, the output holds bytes of the first row twice and
\* none of the second row
WriteAllRowLost ==
    /\ pc = "writing" /\ \A t \in Goroutines : threads[t].pc = "idle"
    /\ Len(hdrArg) = 2
    /\ out = <<"2", ",", "2", ",", "2", "\n", "2">>
    /\ \E k, l \in 1..Len(returned) :
          /\ returned[k].op = "WriteAll" /\ Len(returned[k].rows) = 2
          /\ returned[k].err = NoErr
          /\ returned[l].op = "WriteAll" /\ returned[l].rows = <<>>
          /\ returned[l].err = ErrShortWrite

\* a WriteAll call and a Write call have returned, the rows of both calls
\* were handed to the csv.Writer, and the header has two columns
C14_Witness ==
    /\ pc = "writing" /\ \A t \in Goroutines : threads[t].pc = "idle"
    /\ Len(hdrArg) = 2
    /\ \E k, l \in 1..Len(returned) :
          /\ returned[k].op = "WriteAll" /\ Len(returned[k].rows) = 2
          /\ returned[l].op = "Write" /\ returned[l].go # returned[k].go

-----------------------------------------------------------------------------
(* The timestamp scenario: a Writer whose columns get formatters through    *)
(* SetFormatter, a Record whose entries are timestamps or strings, with or  *)
(* without a formatter of their own, and Write calls.                      *)

\* the values a caller sets: minutes after midnight of one day, a pointer to
\* such a time, and a string
TimeValues == {TimeV(0), TimeV(75), PtrV(TimeV(75)), StrV(<<"x">>)}

\* the formatters a caller gives to Record.Set with them
TimeSetFormatters ==
    {<<>>, <<TimeFormatter(LayoutHM)>>, <<TimeFormatter(LayoutLongDay)>>}

\* the formatters a caller gives to Writer.SetFormatter
TimeColumnFormatters ==
    {<<>>, <<TimeFormatter(LayoutHM)>>, <<TimeFormatter(LayoutUnixDate)>>,
     <<StringFormatter(<<"<">>, <<">">>)>>,
     <<StringFormatter(<<"<">>, <<">">>), StringFormatter(<<"[">>, <<"]">>)>>}

InitTime ==
    /\ pc = "start"
    /\ op = "none"
    /\ w = Nil /\ cw = CsvWriter /\ wErr = NoErr
    /\ rec = NewRecord /\ setLog = <<>>
    /\ codecRows = <<>> /\ out = <<>> /\ sinkFails = FALSE
    /\ before = Nil /\ calls = 0
    /\ hdrArg \in {h \in Headers : h # <<>> /\ NoRepeat(h)}
    /\ src = <<>> /\ input = Nil /\ inputPrev = Nil /\ rd = Nil
    /\ rdErr = NoErr /\ rdRec = Nil /\ got = <<>> /\ all = <<>>
    /\ PureIdle /\ GoIdle

\* writer.SetFormatter(key, formatter...), with TimeFormatter(layout), other
\* formatters, several or none: the arguments are kept in probe
TimeSetFormatter ==
    /\ pc = "writing" /\ calls < MaxCalls
    /\ op' = "SetFormatter"
    /\ \E key \in Keys, fmts \in TimeColumnFormatters :
          /\ w' = SetFormatter(w, key, fmts)
          /\ probe' = [key |-> key, fmts |-> fmts]
    /\ before' = Snapshot
    /\ calls' = calls + 1
    /\ UNCHANGED <<pc, cw, wErr, codecRows, out, sinkFails, res>>
    /\ UNCHANGED <<readerVars, recordVars, goVars>>

\* record.Set(key, time, formatter...)
TimeSet ==
    /\ pc = "writing" /\ calls < MaxCalls
    /\ op' = "Set"
    /\ \E key \in Keys, v \in TimeValues, fmts \in TimeSetFormatters :
          /\ rec' = Set(rec, key, v, fmts)
          /\ setLog' = Append(setLog, [key |-> key, value |-> v, fmts |-> fmts])
    /\ before' = Snapshot
    /\ calls' = calls + 1
    /\ UNCHANGED <<pc, w, cw, wErr, codecRows, out, sinkFails>>
    /\ UNCHANGED <<readerVars, pureVars, goVars>>

NextTime ==
    \/ CallNewWriter \/ TimeSetFormatter \/ TimeSet \/ CallWrite

SpecTime == InitTime /\ [][NextTime]_vars

\* the Record of the Write call holds for the column a timestamp set without
\* formatter, and the column has a TimeFormatter
TimeColumn(column) ==
    /\ column \in DOMAIN before.rec
    /\ before.rec[column].value.t = "time"
    /\ before.rec[column].formatter = NoFormatter
    /\ column \in DOMAIN before.w.formatters
    /\ before.w.formatters[column].k = "TimeFormatter"

\* C15: when every column of the header has a TimeFormatter registered by
\* SetFormatter and the Record holds a timestamp set without formatter for
\* it, Write succeeds and the row holds each timestamp in the column's layout
C15_ColumnTimeFormatter ==
    (/\ pc = "writing" /\ op = "Write"
     /\ \A i \in 1..Len(w.header) : TimeColumn(w.header[i])) =>
        /\ wErr = NoErr
        /\ codecRows = Append(before.rows,
              [i \in 1..Len(w.header) |->
                  TimeFormat(before.w.formatters[w.header[i]].layout,
                             before.rec[w.header[i]].value)])

\* Write was called with a timestamp of 01:15, set without formatter, in the
\* only column, which has TimeFormatter("15:04")
C15_Witness ==
    /\ pc = "writing" /\ op = "Write"
    /\ Len(w.header) = 1
    /\ TimeColumn(w.header[1])
    /\ before.rec[w.header[1]].value = TimeV(75)
    /\ before.w.formatters[w.header[1]] = TimeFormatter(LayoutHM)

\* what the code does in the case of C15: the column's TimeFormatter gets
\* the text defaultFormatter made of the timestamp and fails, and so does
\* Write; nothing is written
ColumnTimeFormatterFails ==
    (/\ pc = "writing" /\ op = "Write"
     /\ \E i \in 1..Len(w.header) :
           /\ TimeColumn(w.header[i])
           /\ \A j \in 1..(i - 1) : TimeColumn(w.header[j])) =>
        /\ wErr.kind = "fmt.Errorf" /\ wErr.ctx = "is not a time"
        /\ codecRows = before.rows /\ out = before.out

-----------------------------------------------------------------------------
(* record.go: Fprintln, on a destination whose writes are numbered from 1   *)
(* and fail when their number is in fails; a failed write writes nothing.   *)

\* an io.Writer: the text it took, the Write calls it got, those that fail
Dest(fails) == [text |-> <<>>, writes |-> 0, fails |-> fails]

\* fmt.Fprintf(w, ...) and fmt.Fprint(w, ...): one Write of the whole text
destWrite(d, s) ==
    [d EXCEPT !.writes = @ + 1,
              !.text = IF (d.writes + 1) \in d.fails THEN @ ELSE @ \o s]

\* the error of the last Write of the destination
destErr(d) == IF d.writes \in d.fails THEN ErrIO ELSE NoErr

\* a faulty loop of Fprintln: the separating space comes after every pair
RECURSIVE fprintlnLoopTrailingSpace(_, _, _, _, _)
fprintlnLoopTrailingSpace(r, columns, i, d, gets) ==
    IF i > Len(columns)
    THEN [err |-> destErr(destWrite(d, <<"\n">>)),
          dest |-> destWrite(d, <<"\n">>), gets |-> gets]
    ELSE LET v  == Get(r, columns[i])
             d1 == destWrite(d, columns[i] \o <<"=", "'">> \o v.s \o <<"'">>)
         IN  IF v.err # NoErr THEN [err |-> v.err, dest |-> d, gets |-> gets + 1]
             ELSE IF destErr(d1) # NoErr
             THEN [err |-> destErr(d1), dest |-> d1, gets |-> gets + 1]
             ELSE fprintlnLoopTrailingSpace(r, columns, i + 1,
                                            destWrite(d1, <<" ">>), gets + 1)

RECURSIVE fprintlnLoop(_, _, _, _, _)
\* the loop of Fprintln from the i-th column on, then the line feed: the error
\* returned, the destination, and the Get calls made
fprintlnLoop(r, columns, i, d, gets) ==
    IF i > Len(columns)
    THEN [err |-> destErr(destWrite(d, <<"\n">>)),
          dest |-> destWrite(d, <<"\n">>), gets |-> gets]
    ELSE LET v  == Get(r, columns[i])
             d1 == destWrite(d, columns[i] \o <<"=", "'">> \o v.s \o <<"'">>)
         IN  IF v.err # NoErr THEN [err |-> v.err, dest |-> d, gets |-> gets + 1]
             ELSE IF destErr(d1) # NoErr
             THEN [err |-> destErr(d1), dest |-> d1, gets |-> gets + 1]
             ELSE fprintlnLoop(r, columns, i + 1,
                               IF i # Len(columns) THEN destWrite(d1, <<" ">>)
                               ELSE d1,
                               gets + 1)

\* Record.Fprintln(w, columns...)
Fprintln(r, d, columns) == fprintlnLoop(r, columns, 1, d, 0)

-----------------------------------------------------------------------------
(* The printing scenario: a Record is built by Set calls, with and without  *)
(* formatters; Get and Fprintln are then called on it.                     *)

\* the values and the formatters a caller gives to Record.Set
PrintValues == {StrV(<<"x">>), IntV(27), TimeV(75)}

PrintFormatters ==
    {<<>>, <<StringFormatter(<<"(">>, <<")">>)>>, <<TimeFormatter(LayoutHM)>>,
     <<ErrFormatter>>,
     <<TimeFormatter(LayoutHM), StringFormatter(<<"(">>, <<")">>)>>}

\* the columns a caller gives to Fprintln
PrintColumns == UNION {[1..n -> Keys \cup {OtherKey}] : n \in 0..MaxHeader}

\* the Write calls that fail on the destination given to Fprintln, which
\* makes 2 * MaxHeader calls at most
PrintFails == SUBSET (1..(2 * MaxHeader))

InitPrint ==
    /\ pc = "building"
    /\ op = "none"
    /\ rec = NewRecord /\ setLog = <<>>
    /\ w = Nil /\ cw = Nil /\ wErr = NoErr
    /\ codecRows = <<>> /\ out = <<>> /\ sinkFails = FALSE /\ before = Nil
    /\ calls = 0
    /\ ReaderIdle
    /\ PureIdle /\ GoIdle

\* record.Set(key, value, formatter...)
PrintSet ==
    /\ pc = "building" /\ calls < MaxCalls
    /\ op' = "Set"
    /\ \E key \in Keys, v \in PrintValues, fmts \in PrintFormatters :
          rec' = Set(rec, key, v, fmts)
    /\ calls' = calls + 1
    /\ UNCHANGED <<pc, setLog, readerVars, pureVars, goVars>>
    /\ UNCHANGED <<w, cw, wErr, codecRows, out, sinkFails, before>>

\* err := record.Fprintln(w, columns...): the arguments and what came of it
CallFprintln ==
    /\ pc = "building"
    /\ pc' = "reading"
    /\ op' = "Fprintln"
    /\ \E columns \in PrintColumns, fails \in PrintFails :
          /\ probe' = [columns |-> columns, fails |-> fails]
          /\ res' = Fprintln(rec, Dest(fails), columns)
    /\ UNCHANGED <<recordVars, writerVars, readerVars, calls, goVars>>

NextPrint == PrintSet \/ CallGet \/ CallFprintln

SpecPrint == InitPrint /\ [][NextPrint]_vars

\* C16: Get of a name that was set returns what the formatter stored with
\* the entry makes of the value, its failure included, and the default
\* rendering of the value only when the entry has no formatter
C16_GetAppliesStoredFormatter ==
    (pc = "reading" /\ op = "Get" /\ probe \in DOMAIN rec) =>
        res = IF rec[probe].formatter = NoFormatter
              THEN defaultFormatter(rec[probe].value)
              ELSE Format(rec[probe].formatter, rec[probe].value)

\* Get was called for a string set with StringFormatter("(%v)")
C16_Witness ==
    /\ pc = "reading" /\ op = "Get" /\ probe \in DOMAIN rec
    /\ rec[probe] = Field(StrV(<<"x">>), StringFormatter(<<"(">>, <<")">>))

\* what the code does in the case of C16: Get returns the default rendering
\* of the value, whatever formatter the entry holds
GetIgnoresStoredFormatter ==
    (pc = "reading" /\ op = "Get" /\ probe \in DOMAIN rec) =>
        res = defaultFormatter(rec[probe].value)

-----------------------------------------------------------------------------
(* The index-backed Record: headers maps a name to an index into values,    *)
(* a Go slice, whose element i is values[i + 1] here.                       *)

\* Record{headers, values}
IndexedRecord(headers, values) == [headers |-> headers, values |-> values]

\* Record.Get(key) of the index-backed Record
IndexedGet(r, key) ==
    IF key \notin DOMAIN r.headers THEN Fail(ErrUnknownKey(key))
    ELSE LET i == r.headers[key]
         IN  IF i < 0 \/ i > Len(r.values) THEN Fail(ErrOutOfBounds(key, i))
             ELSE IF i = Len(r.values) THEN Fail(Panic("index out of range"))
             ELSE Ok(r.values[i + 1])

\* the header tables: every name has an index or none, from -1 to one past
\* the longest row
IndexedHeaders ==
    UNION {[names -> (-1)..(MaxHeader + 1)] : names \in SUBSET Keys}

\* the value sequences: rows of up to MaxHeader fields
IndexedValues == UNION {[1..n -> {<<"x">>, <<"y">>}] : n \in 0..MaxHeader}

\* New(r): the CSVHandler (its headers, the index of every name of the
\* first row), the error, and the csv.Reader after the call
New(cr) ==
    LET h == csvRead(cr)
    IN  IF h.err # NoErr
        THEN [handler |-> Nil, err |-> h.err, cr |-> h.cr]
        ELSE IF firstDuplicate(h.record, {}) # NoErr
        THEN [handler |-> Nil, err |-> firstDuplicate(h.record, {}), cr |-> h.cr]
        ELSE [handler |->
                 [headers |-> [k \in {h.record[i] : i \in 1..Len(h.record)} |->
                                  (CHOOSE i \in 1..Len(h.record) : h.record[i] = k) - 1]],
              err |-> NoErr, cr |-> h.cr]

\* CSVHandler.Read(): the Record of the next row, whatever the error that
\* comes with it, the error, and the csv.Reader after the call
HandlerRead(h, cr) ==
    [record |-> IndexedRecord(h.headers, csvRead(cr).record),
     err |-> csvRead(cr).err, cr |-> csvRead(cr).cr]

RECURSIVE indexedFprintlnLoop(_, _, _, _, _)
\* the loop of Fprintln of the index-backed Record from the i-th column on,
\* then the line feed: the error returned (or the fault of Get), the
\* destination, and the Get calls made
indexedFprintlnLoop(r, columns, i, d, gets) ==
    IF i > Len(columns)
    THEN [err |-> destErr(destWrite(d, <<"\n">>)),
          dest |-> destWrite(d, <<"\n">>), gets |-> gets]
    ELSE LET v  == IndexedGet(r, columns[i])
             d1 == destWrite(d, columns[i] \o <<"=", "'">> \o v.s \o <<"'">>)
         IN  IF v.err # NoErr THEN [err |-> v.err, dest |-> d, gets |-> gets + 1]
             ELSE IF destErr(d1) # NoErr
             THEN [err |-> destErr(d1), dest |-> d1, gets |-> gets + 1]
             ELSE indexedFprintlnLoop(r, columns, i + 1,
                                      IF i # Len(columns) THEN destWrite(d1, <<" ">>)
                                      ELSE d1,
                                      gets + 1)

\* Record.Fprintln(w, columns...) of the index-backed Record
IndexedFprintln(r, d, columns) == indexedFprintlnLoop(r, columns, 1, d, 0)

\* a Record is either built as a struct, with any header table and values,
\* or read by a CSVHandler that New built on a source: the first row of the
\* source is the header, csv.Reader expects the length of the first row of
\* every row that follows
InitIndexed ==
    /\ op = "none"
    /\ \/ /\ pc = "building"
          /\ rec \in {IndexedRecord(h, v) : h \in IndexedHeaders, v \in IndexedValues}
          /\ src = <<>> /\ input = Nil /\ inputPrev = Nil
       \/ /\ pc = "start"
          /\ rec = Nil
          /\ src \in Streams
          /\ input = CsvReader(src) /\ inputPrev = CsvReader(src)
    /\ hdrArg = <<>> /\ rd = Nil
    /\ rdErr = NoErr /\ rdRec = Nil /\ got = <<>> /\ all = <<>>
    /\ setLog = <<>>
    /\ w = Nil /\ cw = Nil /\ wErr = NoErr
    /\ codecRows = <<>> /\ out = <<>> /\ sinkFails = FALSE /\ before = Nil
    /\ calls = 0
    /\ PureIdle /\ GoIdle

\* h, err := New(r)
CallNew ==
    /\ pc = "start"
    /\ op' = "New"
    /\ rd' = New(input).handler
    /\ rdErr' = New(input).err
    /\ input' = New(input).cr
    /\ inputPrev' = input
    /\ pc' = IF rdErr' = NoErr THEN "handling" ELSE "failed"
    /\ UNCHANGED <<src, hdrArg, rdRec, got, all>>
    /\ UNCHANGED <<recordVars, writerVars, calls, pureVars, goVars>>

\* r, err := h.Read(): the caller keeps the Record, whatever the error
CallHandlerRead ==
    /\ pc \in {"handling", "building", "reading"} /\ rd # Nil
    /\ calls < MaxCalls
    /\ pc' = "building"
    /\ op' = "Read"
    /\ rec' = HandlerRead(rd, input).record
    /\ rdErr' = HandlerRead(rd, input).err
    /\ input' = HandlerRead(rd, input).cr
    /\ inputPrev' = input
    /\ calls' = calls + 1
    /\ UNCHANGED <<src, hdrArg, rd, rdRec, got, all, setLog>>
    /\ UNCHANGED <<writerVars, pureVars, goVars>>

\* v, err := record.Get(key)
CallIndexedGet ==
    /\ pc \in {"building", "reading"}
    /\ pc' = "reading"
    /\ op' = "Get"
    /\ \E key \in Keys \cup {OtherKey} :
          /\ probe' = key
          /\ res' = IndexedGet(rec, key)
    /\ UNCHANGED <<recordVars, writerVars, readerVars, calls, goVars>>

\* err := record.Fprintln(w, columns...) on a destination that takes every
\* Write
CallIndexedFprintln ==
    /\ pc \in {"building", "reading"}
    /\ pc' = "reading"
    /\ op' = "Fprintln"
    /\ \E columns \in PrintColumns :
          /\ probe' = [columns |-> columns, fails |-> {}]
          /\ res' = IndexedFprintln(rec, Dest({}), columns)
    /\ UNCHANGED <<recordVars, writerVars, readerVars, calls, goVars>>

NextIndexed == CallNew \/ CallHandlerRead \/ CallIndexedGet \/ CallIndexedFprintln

SpecIndexed == InitIndexed /\ [][NextIndexed]_vars

\* C17: Get of a name of the header table returns ErrOutOfBounds with the
\* name and the index for every index below 0 or not below the length of the
\* values, and the value at the index otherwise; it never faults
C17_IndexOutOfRange ==
    (pc = "reading" /\ op = "Get" /\ probe \in DOMAIN rec.headers) =>
        LET i == rec.headers[probe]
        IN  IF i < 0 \/ i >= Len(rec.values)
            THEN res = Fail(ErrOutOfBounds(probe, i))
            ELSE res = Ok(rec.values[i + 1])

\* Get was called for a name whose index is the length of a row shorter than
\* the header
C17_Witness ==
    /\ pc = "reading" /\ op = "Get" /\ probe \in DOMAIN rec.headers
    /\ rec.headers[probe] = Len(rec.values)
    /\ Len(rec.values) = 1 /\ Cardinality(DOMAIN rec.headers) = 2

\* what the code does in the case of C17: it faults for the index equal to
\* the length, and is as C17 says for every other index
IndexedGetFaultsAtLength ==
    (pc = "reading" /\ op = "Get" /\ probe \in DOMAIN rec.headers) =>
        LET i == rec.headers[probe]
        IN  IF i = Len(rec.values) THEN res.err.kind = "panic"
            ELSE IF i < 0 \/ i > Len(rec.values)
            THEN res = Fail(ErrOutOfBounds(probe, i))
            ELSE res = Ok(rec.values[i + 1])

\* New read the header a, b, Read returned the row of the one field x with
\* csv.ErrFieldCount, and Get of b faulted
HandlerShortRowFaults ==
    /\ pc = "reading" /\ op = "Get" /\ probe = <<"b">>
    /\ rd # Nil /\ rd.headers = (<<"a">> :> 0) @@ (<<"b">> :> 1)
    /\ Len(rec.values) = 1 /\ rdErr = ErrFieldCount
    /\ res.err.kind = "panic"

\* the Records a CSVHandler returns hold the header table New built: the
\* names of the first row of the source with their positions, from 0 on
HandlerRecordsKeepHeaders ==
    (rd # Nil /\ pc \in {"building", "reading"}) =>
        /\ rec.headers = rd.headers
        /\ DOMAIN rd.headers = {src[1].record[i] : i \in 1..Len(src[1].record)}
        /\ \A k \in DOMAIN rd.headers : src[1].record[rd.headers[k] + 1] = k

\* Fprintln of the index-backed Record printed two names of a row that a
\* CSVHandler read
IndexedFprintlnPrinted ==
    /\ pc = "reading" /\ op = "Fprintln" /\ rd # Nil
    /\ Len(probe.columns) = 2 /\ res.err = NoErr
    /\ res.dest.text = probe.columns[1] \o <<"=", "'">> \o rec.values[rd.headers[probe.columns[1]] + 1]
                       \o <<"'", " ">> \o probe.columns[2] \o <<"=", "'">>
                       \o rec.values[rd.headers[probe.columns[2]] + 1] \o <<"'", "\n">>

-----------------------------------------------------------------------------
(* Fprintln in the printing scenario                                        *)

\* the Write calls of the destination that failed during the Fprintln call
FailedWrites == {k \in probe.fails : k <= res.dest.writes}

\* the lookups Fprintln has made when it makes its k-th Write: with names,
\* the Writes are pair, space, pair, ..., pair, line feed; without, the line
\* feed alone
LookupsBefore(k) == IF probe.columns = <<>> THEN 0 ELSE (k + 1) \div 2

\* C18: when a Write of the destination fails during Fprintln (for a pair, a
\* separating space or the line feed), Fprintln returns the I/O error, the
\* failed Write is the last one, and no name is looked up after it
C18_WriteFailureAborts ==
    (pc = "reading" /\ op = "Fprintln" /\ FailedWrites # {}) =>
        LET k == SetMin(FailedWrites)
        IN  /\ res.err = ErrIO
            /\ res.dest.writes = k
            /\ res.gets = LookupsBefore(k)

\* Fprintln was called with two names that are set, on a destination whose
\* second Write fails: the Write of the separating space
C18_Witness ==
    /\ pc = "reading" /\ op = "Fprintln"
    /\ Len(probe.columns) = 2
    /\ \A j \in 1..2 : probe.columns[j] \in DOMAIN rec
    /\ probe.fails = {2}
    /\ 2 \in FailedWrites

\* what the code does in the case of C18: Fprintln stops at the failed Write
\* of a pair or of the line feed, and looks up the next name after the
\* failed Write of a separating space
FprintlnIgnoresSpaceFailure ==
    (pc = "reading" /\ op = "Fprintln" /\ FailedWrites # {}) =>
        LET k == SetMin(FailedWrites)
            n == Len(probe.columns)
        IN  IF k % 2 = 1 \/ k = 2 * n
            THEN /\ res.err = ErrIO
                 /\ res.dest.writes = k
                 /\ res.gets = LookupsBefore(k)
            ELSE res.gets > LookupsBefore(k)

\* the pair Fprintln writes for the j-th name
PrintPair(j) ==
    probe.columns[j] \o <<"=", "'">> \o Get(rec, probe.columns[j]).s \o <<"'">>

\* the names of the call that Get fails for
PrintUnknown ==
    {j \in 1..Len(probe.columns) : Get(rec, probe.columns[j]).err # NoErr}

\* C19: on a destination that takes every Write, Fprintln of names that Get
\* resolves writes the pairs name='value' in the order of the names, one space
\* between two pairs, none after the last, then one line feed, and returns
\* nil; when Get fails for the k-th name first, Fprintln returns that error
\* and has written the pairs before the k-th, each with its space, and no
\* line feed
C19_FprintlnFormat ==
    (pc = "reading" /\ op = "Fprintln" /\ probe.fails = {}) =>
        LET n == Len(probe.columns)
        IN  IF PrintUnknown = {}
            THEN /\ res.err = NoErr
                 /\ res.dest.text =
                       Concat([j \in 1..n |->
                                  PrintPair(j) \o (IF j < n THEN <<" ">> ELSE <<>>)])
                       \o <<"\n">>
            ELSE LET k == SetMin(PrintUnknown)
                 IN  /\ res.err = Get(rec, probe.columns[k]).err
                     /\ res.dest.text =
                           Concat([j \in 1..(k - 1) |-> PrintPair(j) \o <<" ">>])

\* Fprintln wrote two pairs of a Record on a working destination, and in
\* another call one pair before a name that is not set
C19_Witness ==
    /\ pc = "reading" /\ op = "Fprintln" /\ probe.fails = {}
    /\ Len(probe.columns) = 2
    /\ probe.columns[1] \in DOMAIN rec
    /\ \/ /\ probe.columns[2] \in DOMAIN rec
          /\ probe.columns[1] # probe.columns[2]
          /\ res.err = NoErr
          /\ Len(res.dest.text) > 8
       \/ /\ probe.columns[2] = OtherKey
          /\ res.err = ErrUnknownKey(OtherKey)
          /\ res.dest.text # <<>>

-----------------------------------------------------------------------------
(* SetFormatter in the timestamp scenario                                   *)

RECURSIVE InOrder(_, _)
\* the formatters applied one after the other: each gets the text of the one
\* before, the first failure ends it
InOrder(fs, v) ==
    IF Len(fs) = 1 THEN Format(fs[1], v)
    ELSE IF Format(fs[1], v).err # NoErr THEN Fail(Format(fs[1], v).err)
    ELSE InOrder(Tail(fs), StrV(Format(fs[1], v).s))

\* C20: SetFormatter with no formatter leaves the Writer as it was: no entry
\* is added for the name and an entry registered before stays, so that later
\* writes find it; with one formatter or more, the entry of the name becomes
\* their chain in the given order and every other entry stays
C20_SetFormatterFrame ==
    (pc = "writing" /\ op = "SetFormatter") =>
        IF probe.fmts = <<>> THEN w = before.w
        ELSE /\ DOMAIN w.formatters = DOMAIN before.w.formatters \cup {probe.key}
             /\ \A v \in TimeValues :
                   Format(w.formatters[probe.key], v) = InOrder(probe.fmts, v)
             /\ \A key \in DOMAIN before.w.formatters :
                   key # probe.key => w.formatters[key] = before.w.formatters[key]
             /\ w.header = before.w.header /\ w.defaults = before.w.defaults
             /\ w.EmptyValue = before.w.EmptyValue

\* SetFormatter was called without formatter for a name that had one, and a
\* later Write of that column still applied it: the row holds the empty
\* value between < and >
C20_Witness ==
    /\ pc = "writing" /\ op = "Write" /\ wErr = NoErr
    /\ probe # Nil /\ probe.fmts = <<>>
    /\ w.header = <<probe.key>>
    /\ probe.key \in DOMAIN w.formatters
    /\ w.formatters[probe.key] = StringFormatter(<<"<">>, <<">">>)
    /\ codecRows = << << <<"<", ">">> >> >>

-----------------------------------------------------------------------------
(* The nil scenario: a Writer with defaults, a Record whose entries are nil *)
(* or a string, with or without formatter, and Write calls.                *)

\* the values and the formatters a caller gives to Record.Set
NilValues == {NilV, StrV(<<"x">>)}

NilFormatters == {<<>>, <<StringFormatter(<<"(">>, <<")">>)>>}

InitNil ==
    /\ pc = "start"
    /\ op = "none"
    /\ w = Nil /\ cw = CsvWriter /\ wErr = NoErr
    /\ rec = NewRecord /\ setLog = <<>>
    /\ codecRows = <<>> /\ out = <<>> /\ sinkFails = FALSE
    /\ before = Nil /\ calls = 0
    /\ hdrArg \in {h \in Headers : h # <<>> /\ NoRepeat(h)}
    /\ src = <<>> /\ input = Nil /\ inputPrev = Nil /\ rd = Nil
    /\ rdErr = NoErr /\ rdRec = Nil /\ got = <<>> /\ all = <<>>
    /\ PureIdle /\ GoIdle

\* record.Set(key, nil, formatter...), or a string
NilSet ==
    /\ pc = "writing" /\ calls < MaxCalls
    /\ op' = "Set"
    /\ \E key \in Keys, v \in NilValues, fmts \in NilFormatters :
          /\ rec' = Set(rec, key, v, fmts)
          /\ setLog' = Append(setLog, [key |-> key, value |-> v, fmts |-> fmts])
    /\ before' = Snapshot
    /\ calls' = calls + 1
    /\ UNCHANGED <<pc, w, cw, wErr, codecRows, out, sinkFails>>
    /\ UNCHANGED <<readerVars, pureVars, goVars>>

NextNil == CallNewWriter \/ CallSetDefault \/ NilSet \/ CallWrite

SpecNil == InitNil /\ [][NextNil]_vars

\* the names of the header for which the Record of the Write call holds nil
\* and the Writer a default
NilWithDefault ==
    {k \in DOMAIN before.rec :
        /\ before.rec[k].value = NilV
        /\ k \in DOMAIN before.w.defaults
        /\ \E i \in 1..Len(before.w.header) : before.w.header[i] = k}

\* the Record of the Write call without its nil entries that have a default
WithoutNil ==
    [k \in (DOMAIN before.rec) \ NilWithDefault |-> before.rec[k]]

\* C21: when the Record holds nil for a column that has a default, Write
\* resolves the column from the default, value and formatter, as if the
\* Record had no entry for it: error, rows and output are those of Write on
\* the Record without these entries
C21_NilUsesDefault ==
    (pc = "writing" /\ op = "Write" /\ NilWithDefault # {}) =>
        LET x == Write(before.w, before.cw, before.out, sinkFails, WithoutNil)
        IN  /\ wErr = x.err
            /\ codecRows = before.rows \o x.rows
            /\ out = x.out

\* Write was called with nil in the only column, which has the default 18
C21_Witness ==
    /\ pc = "writing" /\ op = "Write"
    /\ Len(w.header) = 1
    /\ w.header[1] \in NilWithDefault
    /\ before.rec[w.header[1]].formatter = NoFormatter
    /\ before.w.defaults[w.header[1]] = Field(IntV(18), NoFormatter)

\* what the code does in the case of C21: the nil of the Record is the value
\* and goes through the formatter of the entry, defaultFormatter when it has
\* none, which prints <nil>
NilIsRendered ==
    (pc = "writing" /\ op = "Write" /\ NilWithDefault # {}) =>
        /\ wErr = NoErr
        /\ \A i \in 1..Len(w.header) :
              w.header[i] \in NilWithDefault =>
                 codecRows[Len(codecRows)][i] =
                    Format(IF before.rec[w.header[i]].formatter = NoFormatter
                           THEN DefaultFormatter
                           ELSE before.rec[w.header[i]].formatter, NilV).s

-----------------------------------------------------------------------------
(* formatter.go: the loop of chainFormatter with the calls it makes, and    *)
(* the chain scenario: a chain of formatters is built and applied to a     *)
(* value.                                                                  *)

\* the longest chain
MaxChain == 3

\* a faulty loop of chainFormatter: a failed stage is passed over, the next
\* stage gets the empty string
RECURSIVE chainFormatterLoopGoesOn(_, _, _, _)
chainFormatterLoopGoesOn(fs, v, i, invoked) ==
    IF i > Len(fs) THEN [s |-> <<>>, err |-> NoErr, invoked |-> invoked]
    ELSE IF i = Len(fs)
    THEN [s |-> Format(fs[i], v).s, err |-> Format(fs[i], v).err,
          invoked |-> Append(invoked, i)]
    ELSE chainFormatterLoopGoesOn(fs, StrV(Format(fs[i], v).s), i + 1,
                                  Append(invoked, i))

\* the loop of the function chainFormatter returns, from the i-th formatter
\* on with the value v: the string and the error returned, and the formatters
\* that were called; after the loop, "" and nil
RECURSIVE chainFormatterLoop(_, _, _, _)
chainFormatterLoop(fs, v, i, invoked) ==
    IF i > Len(fs) THEN [s |-> <<>>, err |-> NoErr, invoked |-> invoked]
    ELSE IF i = Len(fs)
    THEN [s |-> Format(fs[i], v).s, err |-> Format(fs[i], v).err,
          invoked |-> Append(invoked, i)]
    ELSE IF Format(fs[i], v).err # NoErr
    THEN [s |-> <<>>, err |-> Format(fs[i], v).err, invoked |-> Append(invoked, i)]
    ELSE chainFormatterLoop(fs, StrV(Format(fs[i], v).s), i + 1,
                            Append(invoked, i))

\* the formatters of a chain: those of the package and the failing formatter
\* of the tests; each returns "" with its error
ChainStages ==
    {StringFormatter(<<"(">>, <<")">>), TimeFormatter(LayoutHM), ErrFormatter,
     DefaultFormatter}

ChainFormatters == UNION {[1..n -> ChainStages] : n \in 0..MaxChain}

\* the values a chain is applied to
ChainValues == {StrV(<<"x">>), IntV(27), TimeV(75), NilV}

InitChain ==
    /\ pc = "start"
    /\ op = "none"
    /\ probe \in {[fs |-> fs, v |-> v] : fs \in ChainFormatters, v \in ChainValues}
    /\ res = Nil
    /\ rec = NewRecord /\ setLog = <<>>
    /\ w = Nil /\ cw = Nil /\ wErr = NoErr
    /\ codecRows = <<>> /\ out = <<>> /\ sinkFails = FALSE /\ before = Nil
    /\ calls = 0
    /\ ReaderIdle /\ GoIdle

\* s, err := chainFormatter(fs...)(v)
CallChain ==
    /\ pc = "start"
    /\ pc' = "done"
    /\ op' = "chainFormatter"
    /\ res' = chainFormatterLoop(probe.fs, probe.v, 1, <<>>)
    /\ UNCHANGED <<probe, recordVars, writerVars, readerVars, calls, goVars>>

NextChain == CallChain

SpecChain == InitChain /\ [][NextChain]_vars

RECURSIVE StageInput(_)
\* the value the i-th stage of the chain is to get: the value given to the
\* chain, then the string of the stage before
StageInput(i) ==
    IF i = 1 THEN probe.v
    ELSE StrV(Format(probe.fs[i - 1], StageInput(i - 1)).s)

\* the stages that fail on their input
FailingStages ==
    {i \in 1..Len(probe.fs) :
        /\ \A j \in 1..(i - 1) : Format(probe.fs[j], StageInput(j)).err = NoErr
        /\ Format(probe.fs[i], StageInput(i)).err # NoErr}

\* C22: a chain of one formatter or more calls them in the given order, each
\* on the string of the one before; when stage i fails the chain returns its
\* error and no string and calls no later stage; when none fails it returns
\* the string of the last stage
C22_ChainInOrder ==
    (pc = "done" /\ Len(probe.fs) >= 1) =>
        LET n == Len(probe.fs)
        IN  IF FailingStages = {}
            THEN /\ res.err = NoErr
                 /\ res.s = Format(probe.fs[n], StageInput(n)).s
                 /\ res.invoked = [j \in 1..n |-> j]
            ELSE LET i == SetMin(FailingStages)
                 IN  /\ res.err = Format(probe.fs[i], StageInput(i)).err
                     /\ res.s = <<>>
                     /\ res.invoked = [j \in 1..i |-> j]

\* a chain of three formatters got a timestamp and returned "((01:15))"; in
\* another run the second of three stages failed
C22_Witness ==
    /\ pc = "done" /\ Len(probe.fs) = 3
    /\ \/ /\ probe.fs[1] = TimeFormatter(LayoutHM) /\ probe.v = TimeV(75)
          /\ res.err = NoErr
          /\ res.s = <<"(", "(", "0", "1", ":", "1", "5", ")", ")">>
       \/ /\ res.err # NoErr /\ res.invoked = <<1, 2>>

\* the loop with its calls returns what chainFormat of the Writer scenarios
\* returns, for chains of one formatter or more
ChainLoopAgrees ==
    (pc = "done" /\ Len(probe.fs) >= 1) =>
        /\ res.s = chainFormat(probe.fs, probe.v).s
        /\ res.err = chainFormat(probe.fs, probe.v).err

-----------------------------------------------------------------------------
(* The resolution scenario: formatters that fail at the three levels (the   *)
(* entry of the Record, the default, the column), and Write calls that     *)
(* tell how many columns they resolved.                                    *)

\* the formatters a caller gives to Writer.SetDefault
ResolveDefaultFormatters == {<<>>, <<ErrFormatter>>}

InitResolve ==
    /\ pc = "start"
    /\ op = "none"
    /\ w = Nil /\ cw = CsvWriter /\ wErr = NoErr
    /\ rec = NewRecord /\ setLog = <<>>
    /\ codecRows = <<>> /\ out = <<>> /\ sinkFails = FALSE
    /\ before = Nil /\ calls = 0
    /\ hdrArg \in {h \in Headers : NoRepeat(h)}
    /\ src = <<>> /\ input = Nil /\ inputPrev = Nil /\ rd = Nil
    /\ rdErr = NoErr /\ rdRec = Nil /\ got = <<>> /\ all = <<>>
    /\ PureIdle /\ GoIdle

\* writer.SetDefault(key, value, formatter...), with a formatter that fails
\* or none
ResolveSetDefault ==
    /\ pc = "writing" /\ calls < MaxCalls
    /\ op' = "SetDefault"
    /\ \E key \in Keys, v \in DefaultValues, fmts \in ResolveDefaultFormatters :
          w' = SetDefault(w, key, v, fmts)
    /\ before' = Snapshot
    /\ calls' = calls + 1
    /\ UNCHANGED <<pc, cw, wErr, codecRows, out, sinkFails>>
    /\ UNCHANGED <<readerVars, recordVars, pureVars, goVars>>

\* err := writer.Write(record), and the number of columns it resolved
ResolveWrite ==
    /\ pc = "writing" /\ calls < MaxCalls
    /\ op' = "Write"
    /\ LET x == Write(w, cw, out, sinkFails, rec)
       IN  /\ wErr' = x.err
           /\ cw' = x.cw
           /\ out' = x.out
           /\ codecRows' = codecRows \o x.rows
           /\ res' = x.resolved
    /\ before' = Snapshot
    /\ calls' = calls + 1
    /\ UNCHANGED <<pc, w, sinkFails, probe>>
    /\ UNCHANGED <<readerVars, recordVars, goVars>>

NextResolve ==
    \/ CallNewWriter \/ ResolveSetDefault \/ CallSetFormatter \/ CallSet
    \/ ResolveWrite

SpecResolve == InitResolve /\ [][NextResolve]_vars

\* the columns whose resolution fails for the Writer and the Record of the
\* Write call
FailingColumns ==
    {i \in 1..Len(before.w.header) :
        getFormattedValue(before.w, before.rec, before.w.header[i]).err # NoErr}

\* the level a failing column's error comes from
FailingLevel(i) ==
    LET k == before.w.header[i]
    IN  IF k \in DOMAIN before.rec /\ before.rec[k].formatter = ErrFormatter
        THEN "value"
        ELSE IF k \notin DOMAIN before.rec /\ k \in DOMAIN before.w.defaults
                /\ before.w.defaults[k].formatter = ErrFormatter
        THEN "default"
        ELSE "column"

\* C23: when the resolution of a header column fails during Write, Write
\* returns the error of the first such column, resolves no column after it,
\* hands no row to the csv.Writer and leaves the csv.Writer and the output
\* as they were
C23_ResolutionFailureAborts ==
    (pc = "writing" /\ op = "Write" /\ FailingColumns # {}) =>
        LET i == SetMin(FailingColumns)
        IN  /\ wErr = getFormattedValue(before.w, before.rec, before.w.header[i]).err
            /\ res = i
            /\ codecRows = before.rows
            /\ cw = before.cw
            /\ out = before.out

\* Write failed at the first of two columns, for a formatter of the Record,
\* of the default or of the column
C23_Witness ==
    /\ pc = "writing" /\ op = "Write"
    /\ Len(w.header) = 2
    /\ 1 \in FailingColumns
    /\ FailingLevel(1) \in {"value", "default", "column"}
    /\ wErr # NoErr /\ res = 1

\* Write failed for a formatter of each of the three levels
ResolveLevels ==
    [lv \in {"value", "default", "column"} |->
        /\ pc = "writing" /\ op = "Write" /\ FailingColumns # {}
        /\ FailingLevel(SetMin(FailingColumns)) = lv]

-----------------------------------------------------------------------------
(* Writer.WriteAll, with another goroutine that calls Write on the same     *)
(* Writer: the loop over the records, the Flush, the Error() of the         *)
(* csv.Writer.  Every call is taken statement by statement, as in the       *)
(* concurrent Writer scenario: Write works under w.mutex, which WriteAll    *)
(* holds at no other time, so the Write of the other goroutine runs before  *)
(* the first Write of the loop, between two of them or after the last, and  *)
(* its statements interleave with those of the Flush and the Error() that   *)
(* end WriteAll.  The destination may start to fail at any time.            *)

\* the goroutine that calls WriteAll; the others call Write
WriteAllCaller == SetMin(Goroutines)

\* a WriteAll call under way: the records given, the Write calls made for
\* them and the error of the last one, what the Write under way found when
\* it took the mutex, what each Write call found and left, the Flush calls
\* made and what the Flush found, whether another goroutine was inside Write
\* after the Flush was called, what Error() left, whether the call returned
WriteAllStart(records) ==
    [records |-> records, attempted |-> 0, err |-> NoErr, found |-> Nil,
     trace |-> <<>>, flushes |-> 0, flush |-> Nil, overlap |-> FALSE,
     end |-> Nil, done |-> FALSE]

\* a faulty WriteAll: after a failing Write the loop goes on with the
\* records that follow
writeAllNextGoesOn(st) ==
    IF st.attempted < Len(st.records) THEN "Write"
    ELSE "Flush"

\* what Writer.WriteAll(r) does next: it returns the error of the Write that
\* failed, calls Write for the next record, or, the loop being over, calls
\* Flush and returns Error()
writeAllNext(st) ==
    IF st.err # NoErr THEN "return"
    ELSE IF st.attempted < Len(st.records) THEN "Write"
    ELSE "Flush"

\* the csv.Writer as its bufio.Writer has it: the text buffered and the
\* error kept
Buffered(b) == [buf |-> SubSeq(bufArray(b.buf, b.n), 1, b.n), err |-> b.err]

\* the records of the scenario: entries with and without a failing formatter
WriteAllRecords ==
    {NewRecord,
     Set(NewRecord, <<"a">>, StrV(<<"x">>), <<>>),
     Set(NewRecord, <<"a">>, StrV(<<"x">>), <<ErrFormatter>>),
     Set(Set(NewRecord, <<"a">>, IntV(27), <<>>), <<"b">>, StrV(<<"x">>), <<>>)}

WriteAllLists == UNION {[1..n -> WriteAllRecords] : n \in 0..MaxRows}

\* the Record the other goroutine writes
OtherRecord ==
    Set(Set(NewRecord, <<"a">>, StrV(<<"o">>), <<>>), <<"b">>, StrV(<<"o">>), <<>>)

\* the Write calls the other goroutines make
MaxOtherWrites == 1

InitWriteAll ==
    /\ pc = "start"
    /\ op = "none"
    /\ w = Nil /\ cw = BufioWriter /\ wErr = NoErr
    /\ rec = NewRecord /\ setLog = <<>>
    /\ codecRows = <<>> /\ out = <<>> /\ sinkFails = FALSE
    /\ before = Nil /\ calls = 0
    /\ hdrArg \in {h \in Headers : NoRepeat(h)}
    /\ src = <<>> /\ input = Nil /\ inputPrev = Nil /\ rd = Nil
    /\ rdErr = NoErr /\ rdRec = Nil /\ got = <<>> /\ all = <<>>
    /\ probe \in {[records |-> rs] : rs \in WriteAllLists}
    /\ res = Nil
    /\ mutex = 0
    /\ threads = [t \in Goroutines |-> GoIdleThread]
    /\ returned = <<>>

\* writer.WriteAll(records) is called: the loop calls Write for the first
\* record, or is over at once
CallWriteAll ==
    /\ pc = "writing" /\ res = Nil
    /\ threads[WriteAllCaller].pc = "idle"
    /\ op' = "WriteAll"
    /\ res' = WriteAllStart(probe.records)
    /\ before' = Snapshot
    /\ threads' = [threads EXCEPT ![WriteAllCaller] =
          [pc |-> IF writeAllNext(WriteAllStart(probe.records)) = "Write"
                  THEN "Lock" ELSE "AllTail",
           x |-> GoCall("WriteAll",
                        [j \in 1..Len(probe.records) |-> GoRow(probe.records[j])]),
           todo |-> probe.records]]
    /\ UNCHANGED <<pc, w, cw, wErr, codecRows, out, sinkFails, calls, probe>>
    /\ UNCHANGED <<readerVars, recordVars, mutex, returned>>

\* another goroutine calls writer.Write(OtherRecord), before the WriteAll
\* call or during it
OtherWrite(t) ==
    /\ pc = "writing" /\ t # WriteAllCaller
    /\ calls < MaxOtherWrites
    /\ IF res = Nil THEN TRUE ELSE ~res.done
    /\ threads[t].pc = "idle"
    /\ threads' = [threads EXCEPT ![t] =
          [pc |-> "Lock",
           x |-> GoCall("Write", <<GoRow(OtherRecord)>>),
           todo |-> <<OtherRecord>>]]
    /\ calls' = calls + 1
    /\ UNCHANGED <<pc, op, readerVars, writerVars, recordVars, pureVars, mutex, returned>>

\* the destination starts to fail: its Write returns 0 and an error from now
\* on
SinkBreaks ==
    /\ pc = "writing" /\ ~sinkFails
    /\ IF res = Nil THEN TRUE ELSE ~res.done
    /\ sinkFails' = TRUE
    /\ UNCHANGED <<pc, op, w, cw, wErr, codecRows, out, before, calls>>
    /\ UNCHANGED <<readerVars, recordVars, pureVars, goVars>>

\* w.mutex.Lock() of a Write call: the Write of WriteAll notes what it finds;
\* another goroutine that enters Write after WriteAll called Flush overlaps
\* the end of WriteAll
WriteAllLock(t) ==
    /\ pc = "writing"
    /\ threads[t].pc = "Lock"
    /\ canLock(mutex)
    /\ mutex' = t
    /\ threads' = [threads EXCEPT ![t].pc = "Format"]
    /\ res' = IF res = Nil THEN res
              ELSE IF t = WriteAllCaller
              THEN [res EXCEPT !.found = [cw |-> Buffered(cw), out |-> out,
                                          broken |-> sinkFails]]
              ELSE IF res.flush # Nil /\ ~res.done
              THEN [res EXCEPT !.overlap = TRUE]
              ELSE res
    /\ UNCHANGED <<pc, op, readerVars, writerVars, recordVars, calls, probe, returned>>

\* the Write call of the loop returns, with the deferred w.mutex.Unlock():
\* `if err := w.Write(record); err != nil { return err }`, and the loop goes
\* on or is over
WriteAllUnlock ==
    /\ pc = "writing"
    /\ threads[WriteAllCaller].pc = "Unlock"
    /\ mutex' = IF mutex = WriteAllCaller THEN 0 ELSE mutex
    /\ LET x  == threads[WriteAllCaller].x
           st == [res EXCEPT
                    !.attempted = @ + 1,
                    !.err = x.err,
                    !.found = Nil,
                    !.trace = Append(@, [record |-> Head(threads[WriteAllCaller].todo),
                                         cw |-> res.found.cw,
                                         before |-> res.found.out,
                                         broken |-> {res.found.broken, sinkFails},
                                         err |-> x.err,
                                         after |-> out])]
       IN  IF writeAllNext(st) = "return"
           THEN /\ res' = [st EXCEPT !.done = TRUE]
                /\ wErr' = x.err
                /\ returned' = Append(returned,
                                      [go |-> WriteAllCaller, op |-> x.op,
                                       rows |-> x.rows, err |-> x.err])
                /\ threads' = [threads EXCEPT ![WriteAllCaller] = GoIdleThread]
           ELSE /\ res' = st
                /\ wErr' = wErr
                /\ returned' = returned
                /\ threads' = [threads EXCEPT
                       ![WriteAllCaller].pc = IF writeAllNext(st) = "Write"
                                              THEN "Lock" ELSE "AllTail",
                       ![WriteAllCaller].x.err = NoErr,
                       ![WriteAllCaller].todo = Tail(threads[WriteAllCaller].todo)]
    /\ UNCHANGED <<pc, op, w, cw, codecRows, out, sinkFails, before, calls, probe>>
    /\ UNCHANGED <<readerVars, recordVars>>

\* w.writer.Flush() is called, the loop being over; its statements follow
\* (GoFlush, GoFlushed), then those of Error() (GoError, GoErrored)
WriteAllFlush ==
    /\ pc = "writing"
    /\ threads[WriteAllCaller].pc = "AllTail"
    /\ threads' = [threads EXCEPT ![WriteAllCaller].pc = "AllFlush"]
    /\ res' = [res EXCEPT
                 !.flushes = @ + 1,
                 !.flush = [cw |-> Buffered(cw), out |-> out,
                            attempted |-> res.attempted],
                 !.overlap = mutex # 0]
    /\ UNCHANGED <<pc, op, readerVars, writerVars, recordVars, calls, probe>>
    /\ UNCHANGED <<mutex, returned>>

\* return w.writer.Error(): WriteAll returns what Error() gave
WriteAllReturn ==
    /\ pc = "writing"
    /\ threads[WriteAllCaller].pc = "AllReturn"
    /\ LET x == threads[WriteAllCaller].x
       IN  /\ wErr' = x.err
           /\ returned' = Append(returned,
                                 [go |-> WriteAllCaller, op |-> x.op,
                                  rows |-> x.rows, err |-> x.err])
    /\ threads' = [threads EXCEPT ![WriteAllCaller] = GoIdleThread]
    /\ res' = [res EXCEPT !.done = TRUE,
                          !.end = [cw |-> Buffered(cw), out |-> out]]
    /\ UNCHANGED <<pc, op, w, cw, codecRows, out, sinkFails, before, calls, probe>>
    /\ UNCHANGED <<readerVars, recordVars, mutex>>

NextWriteAll ==
    \/ GoNewWriter \/ CallWriteAll \/ SinkBreaks
    \/ WriteAllUnlock \/ WriteAllFlush \/ WriteAllReturn
    \/ \E t \in Goroutines :
          \/ OtherWrite(t) \/ WriteAllLock(t) \/ GoFormat(t) \/ GoPut(t)
          \/ GoFlush(t) \/ GoFlushed(t) \/ GoError(t) \/ GoErrored(t)
          \/ GoExit(t)
    \/ \E t \in Goroutines \ {WriteAllCaller} : GoUnlock(t)

SpecWriteAll == InitWriteAll /\ [][NextWriteAll]_vars

\* the WriteAll call has returned
WriteAllDone == pc = "writing" /\ res # Nil /\ res.done

\* the records of the WriteAll call whose Write failed
FailedRecords == {k \in 1..Len(res.trace) : res.trace[k].err # NoErr}

\* the row of the j-th record of the WriteAll call
RowOf(j) == formatColumns(before.w, res.records[j], before.w.header, <<>>).row

\* the text s is the beginning of the text t
IsPrefix(s, t) == Len(s) <= Len(t) /\ SubSeq(t, 1, Len(s)) = s

WriteAllFailures ==
    [way \in {"format", "flush", "none"} |->
        /\ WriteAllDone /\ Len(res.records) = 2
        /\ CASE way = "format" -> /\ FailedRecords = {2}
                                  /\ wErr = Errorf("formatter error", NilV)
             [] way = "flush"  -> /\ FailedRecords = {2}
                                  /\ wErr = Errorf("cannot write record", ErrIO)
             [] OTHER          -> /\ FailedRecords = {}
                                  /\ wErr = NoErr /\ res.flushes = 1]

\* the row of another goroutine lies between the rows of the two records of
\* a WriteAll call, which returned nil
WriteAllInterleaved ==
    /\ WriteAllDone /\ wErr = NoErr
    /\ Len(w.header) = 2
    /\ Len(res.records) = 2
    /\ out = before.out \o csvLine(RowOf(1))
                        \o csvLine(formatColumns(w, OtherRecord, w.header, <<>>).row)
                        \o csvLine(RowOf(2))

\* a WriteAll call none of whose Write calls failed returned the error the
\* destination gave to the Write call another goroutine made after the last
\* record was written, and before WriteAll called Flush
WriteAllReturnsOthersError ==
    /\ WriteAllDone /\ FailedRecords = {} /\ Len(res.records) = 2
    /\ ~res.overlap
    /\ wErr = ErrIO
    /\ \E k \in 1..Len(returned) :
          /\ returned[k].op = "Write"
          /\ returned[k].err = Errorf("cannot write record", ErrIO)

\* the Write of another goroutine ran while WriteAll was in its Flush, on a
\* destination that takes every write: WriteAll, none of whose Write calls
\* failed, returned the short write, or returned nil with the row of the
\* other goroutine torn in the output
WriteAllTailRaces ==
    [how \in {"short write", "torn row"} |->
        /\ WriteAllDone /\ FailedRecords = {} /\ ~sinkFails
        /\ res.overlap
        /\ \A t \in Goroutines : threads[t].pc = "idle"
        /\ IF how = "short write" THEN wErr = ErrShortWrite
           ELSE /\ wErr = NoErr
                /\ out # res.flush.out
                /\ out # res.flush.out
                         \o csvLine(formatColumns(w, OtherRecord, w.header, <<>>).row)]

-----------------------------------------------------------------------------
(* WriteHeader, in the Writer scenario.                                     *)

\* C25: WriteHeader on a non-empty header hands the csv.Writer one row, the
\* header in its declared order, and flushes it; on an empty header it hands
\* no row and the output stays as it was; an error of the csv.Writer's Write
\* or Flush is returned
C25_WriteHeader ==
    (pc = "writing" /\ op = "WriteHeader") =>
        /\ IF Len(w.header) # 0 /\ csvError(before.cw) = NoErr
           THEN /\ codecRows = before.rows \o <<w.header>>
                /\ w.header = hdrArg
                /\ IF sinkFails
                   THEN /\ out = before.out
                        /\ wErr = Errorf("cannot write header line", ErrIO)
                   ELSE /\ out = before.out \o csvLine(hdrArg)
                        /\ cw.buf = <<>>
                        /\ wErr = NoErr
           ELSE /\ codecRows = before.rows
                /\ out = before.out
        /\ csvError(before.cw) # NoErr =>
              wErr = Errorf("cannot write header line", csvError(before.cw))
        /\ (Len(w.header) = 0 /\ csvError(before.cw) = NoErr) => wErr = NoErr

\* WriteHeader wrote a header of two names; the cases of the empty header
\* and of the failing destination are WriteHeaderCases
C25_Witness ==
    /\ pc = "writing" /\ op = "WriteHeader"
    /\ Len(w.header) = 2
    /\ wErr = NoErr
    /\ codecRows = before.rows \o <<hdrArg>>
    /\ out = before.out \o csvLine(hdrArg)

WriteHeaderCases ==
    [case \in {"empty", "flush", "write"} |->
        /\ pc = "writing" /\ op = "WriteHeader"
        /\ CASE case = "empty" -> Len(w.header) = 0 /\ out = <<>> /\ wErr = NoErr
             [] case = "flush" ->
                    /\ Len(w.header) # 0 /\ csvError(before.cw) = NoErr
                    /\ wErr # NoErr
             [] OTHER -> csvError(before.cw) # NoErr /\ wErr # NoErr]

-----------------------------------------------------------------------------
(* The Set scenario: sequences of Set calls on one Record, with no, one and *)
(* two formatters.                                                          *)

SetChains ==
    {<<>>,
     <<StringFormatter(<<"(">>, <<")">>)>>,
     <<StringFormatter(<<"(">>, <<")">>), StringFormatter(<<"<">>, <<">">>)>>,
     <<StringFormatter(<<"<">>, <<">">>), StringFormatter(<<"(">>, <<")">>)>>}

InitSet ==
    /\ pc = "building"
    /\ op = "none"
    /\ rec = NewRecord /\ setLog = <<>>
    /\ w = Nil /\ cw = Nil /\ wErr = NoErr
    /\ codecRows = <<>> /\ out = <<>> /\ sinkFails = FALSE /\ before = Nil
    /\ calls = 0
    /\ ReaderIdle
    /\ PureIdle /\ GoIdle

\* record.Set(key, value, formatter...), and the log of the calls
LoggedSet ==
    /\ pc = "building" /\ calls < MaxCalls
    /\ op' = "Set"
    /\ \E key \in Keys, v \in SetValues, fmts \in SetChains :
          /\ rec' = Set(rec, key, v, fmts)
          /\ setLog' = Append(setLog, [key |-> key, value |-> v, fmts |-> fmts])
    /\ before' = [rec |-> rec]
    /\ calls' = calls + 1
    /\ UNCHANGED <<pc, w, cw, wErr, codecRows, out, sinkFails>>
    /\ UNCHANGED <<readerVars, pureVars, goVars>>

NextSet == LoggedSet

SpecSet == InitSet /\ [][NextSet]_vars

\* the Set calls made for a name, by their position in the log
SetsOf(key) == {i \in 1..Len(setLog) : setLog[i].key = key}

\* the highest position of a non-empty set of positions
LastOf(S) == CHOOSE i \in S : \A j \in S : j <= i

\* C26: after any sequence of Set calls the entry of a name is the value and
\* the formatter of the last Set call for that name: no formatter when that
\* call gave none, the formatter itself when it gave one, their chain in the
\* given order when it gave several; a name never set has no entry, and a
\* Set call leaves the entries of the other names as they were
C26_LastSetWins ==
    /\ \A key \in Keys \cup {OtherKey} :
          IF SetsOf(key) = {} THEN key \notin DOMAIN rec
          ELSE LET last == setLog[LastOf(SetsOf(key))]
               IN  /\ key \in DOMAIN rec
                   /\ rec[key].value = last.value
                   /\ Len(last.fmts) = 0 => rec[key].formatter = NoFormatter
                   /\ Len(last.fmts) = 1 => rec[key].formatter = last.fmts[1]
                   /\ Len(last.fmts) > 1 =>
                         \A v \in SetValues :
                            Format(rec[key].formatter, v) = InOrder(last.fmts, v)
    /\ op = "Set" =>
          \A key \in DOMAIN before.rec :
             key # setLog[Len(setLog)].key =>
                key \in DOMAIN rec /\ rec[key] = before.rec[key]

\* a name was set with formatters, another name with two formatters, then
\* the first name again without formatters
C26_Witness ==
    /\ op = "Set" /\ Len(setLog) = 3
    /\ setLog[1].key = setLog[3].key /\ setLog[2].key # setLog[1].key
    /\ Len(setLog[1].fmts) = 1 /\ Len(setLog[2].fmts) = 2 /\ setLog[3].fmts = <<>>
    /\ rec[setLog[3].key].formatter = NoFormatter
    /\ rec[setLog[3].key].value = setLog[3].value
    /\ Format(rec[setLog[2].key].formatter, StrV(<<"x">>)).s
           \in {<<"<", "(", "x", ")", ">">>, <<"(", "<", "x", ">", ")">>}

-----------------------------------------------------------------------------
(* Read and the positions of the header, in the Reader scenario.            *)

\* the row the csv.Reader delivered to the last Read
RowRead == Head(inputPrev.items).record

\* C27: whenever Read builds the fields of a row, the row has as many fields
\* as the header, and Read returns without faulting for every row the
\* csv.Reader delivers, a longer row delivered with csv.ErrFieldCount included
C27_ReadStaysInHeader ==
    (op = "Read" /\ inputPrev.items # <<>>) =>
        /\ rdErr.kind # "panic"
        /\ (rdRec # Nil /\ DOMAIN rdRec # {}) => Len(RowRead) = Len(rd.header)

\* Read was called on a row with more fields than the header has names
C27_Witness ==
    /\ op = "Read" /\ inputPrev.items # <<>> /\ rd.file = "reader.go"
    /\ Head(inputPrev.items).err = NoErr
    /\ Len(RowRead) > Len(rd.header)
    /\ Len(rd.header) >= 1

\* what the Read of record_test.go does: it returns no Record with any error,
\* and never faults
ReadReturnsNilOnError ==
    (op = "Read" /\ rd.file = "record_test.go") =>
        /\ rdErr.kind # "panic"
        /\ rdErr # NoErr <=> rdRec = Nil

\* what the Read of reader.go does instead: it faults exactly for the rows
\* longer than the header, and builds fields for the rows shorter than the
\* header
ReadFaultsOnLongRows ==
    (op = "Read" /\ rd.file = "reader.go" /\ inputPrev.items # <<>>) =>
        /\ rdErr = Panic("index out of range") <=> Len(RowRead) > Len(rd.header)
        /\ (Len(RowRead) < Len(rd.header) /\ RowRead # <<>>) =>
              rdRec # Nil /\ DOMAIN rdRec # {} /\ rdErr # NoErr

-----------------------------------------------------------------------------
(* The lock of the Writer and the accesses to the csv.Writer, in the        *)
(* concurrent Writer scenario.                                              *)

\* goroutine t takes a step that reads or writes the csv.Writer or its
\* destination: a write into the buffer, a Flush, Error()
CodecAccess(t) ==
    GoPut(t) \/ GoFlush(t) \/ GoFlushed(t) \/ GoError(t) \/ GoErrored(t)

\* goroutine u is inside the critical section of Write or WriteHeader
InCriticalSection(u) ==
    /\ mutex = u
    /\ threads[u].pc \in {"Format", "Put", "Flush", "Flushed", "Error", "Errored",
                          "Unlock"}

\* goroutine t is in the Flush or the Error() that end WriteAll
InWriteAllTail(t) ==
    threads[t].pc \in {"AllFlush", "AllFlushed", "AllError", "AllErrored"}

\* C28: every step of a Writer operation that accesses the csv.Writer or its
\* destination is taken by the goroutine that holds the Writer's mutex; the
\* Flush and the Error() of WriteAll are not taken while another call is in
\* its critical section
C28_CodecAccessUnderLock ==
    [][\A t \in Goroutines :
          CodecAccess(t) =>
             /\ mutex = t
             /\ \A u \in Goroutines \ {t} : ~InCriticalSection(u)]_vars

\* WriteAll is between the two halves of its Flush or of its Error() while
\* another goroutine, which holds the mutex, is writing its row
C28_Witness ==
    \E t \in Goroutines, u \in Goroutines :
       /\ u # t
       /\ threads[t].pc \in {"AllFlushed", "AllErrored"}
       /\ threads[t].x.op = "WriteAll"
       /\ mutex = u
       /\ threads[u].pc \in {"Put", "Flush"}

\* what holds instead: the accesses of Write and WriteHeader, and those of
\* the Write calls of WriteAll, are made under the mutex; the only accesses
\* without it are the Flush and the Error() that end WriteAll
OnlyWriteAllTailUnlocked ==
    [][\A t \in Goroutines :
          (CodecAccess(t) /\ mutex # t) => InWriteAllTail(t)]_vars

-----------------------------------------------------------------------------
(* The Writer without header, in the Writer scenario.                       *)

\* C29: NewWriter with an empty header succeeds, and every Write of that
\* Writer hands the csv.Writer a row of zero fields whatever the Record, the
\* defaults and EmptyValue are: the output grows by the end of line of that
\* row at most
C29_EmptyHeaderWritesEmptyRows ==
    /\ (op = "NewWriter" /\ hdrArg = <<>>) =>
          /\ wErr = NoErr /\ pc = "writing"
          /\ w # Nil /\ w.header = <<>>
    /\ (pc = "writing" /\ op = "Write" /\ hdrArg = <<>>) =>
          /\ w.header = <<>>
          /\ IF csvError(before.cw) # NoErr
             THEN /\ codecRows = before.rows
                  /\ out = before.out
                  /\ wErr = Errorf("cannot write record", csvError(before.cw))
             ELSE /\ codecRows = before.rows \o << <<>> >>
                  /\ IF sinkFails
                     THEN /\ out = before.out
                          /\ wErr = Errorf("cannot write record", ErrIO)
                     ELSE /\ out = before.out \o <<"\n">>
                          /\ wErr = NoErr

\* a Writer without header wrote a Record that holds a value, with a default
\* registered
C29_Witness ==
    /\ pc = "writing" /\ op = "Write" /\ hdrArg = <<>>
    /\ DOMAIN rec # {}
    /\ DOMAIN w.defaults # {}
    /\ codecRows = << <<>> >>
    /\ out = <<"\n">>
    /\ wErr = NoErr

-----------------------------------------------------------------------------
(* The chain of no formatter, in the chain scenario.                        *)

\* C30: the function chainFormatter makes of zero formatters fails for every
\* value: it returns an error, never a string (the empty one) without error
C30_EmptyChainFails ==
    (pc = "done" /\ op = "chainFormatter" /\ Len(probe.fs) = 0) =>
        res.err # NoErr

\* the chain of no formatter was called on an int
C30_Witness ==
    /\ pc = "done" /\ op = "chainFormatter"
    /\ probe.fs = <<>> /\ probe.v = IntV(27)
    /\ res.invoked = <<>>

\* what the chain of no formatter returns: the empty string and no error,
\* whatever the value, without calling any formatter
EmptyChainReturnsEmpty ==
    (pc = "done" /\ op = "chainFormatter" /\ Len(probe.fs) = 0) =>
        res.s = <<>> /\ res.err = NoErr /\ res.invoked = <<>>

====
